---- MODULE Spec2Model ----
(***************************************************************************)
(* Model of the question-generation pipeline of the witness and deposition *)
(* preparation tools: the in-memory session stores, the generation route   *)
(* handlers (blocking and streaming), the field validators and the         *)
(* fallback synthesizers.                                                  *)
(*                                                                         *)
(* A route handler is split into one action per stretch of code between    *)
(* two awaits: Node runs such a stretch to completion before any other     *)
(* request's code runs.                                                    *)
(***************************************************************************)
EXTENDS Integers, Sequences, FiniteSets, TLC

(***************************************************************************)
(* JavaScript values, as JSON.parse produces them, plus undefined.         *)
(***************************************************************************)
Undefined == [t |-> "undefined"]
JNull == [t |-> "null"]
JNum(n) == [t |-> "num", n |-> n]
JStr(s) == [t |-> "str", s |-> s]
JArr(a) == [t |-> "arr", a |-> a]
JObj(o) == [t |-> "obj", o |-> o]

\* v.f : property read of a data field.  Reading a property of null or
\* undefined raises a TypeError (see Nullish); of any other value that has
\* no such own property it yields undefined.
Get(v, f) ==
    IF v.t = "obj" /\ f \in DOMAIN v.o THEN v.o[f] ELSE Undefined

Nullish(v) == v.t \in {"null", "undefined"}

\* ToBoolean, as used by `x || d`, `x ? a : b` and `!x`.
Truthy(v) ==
    CASE v.t = "undefined" -> FALSE
      [] v.t = "null"      -> FALSE
      [] v.t = "num"       -> v.n # 0
      [] v.t = "str"       -> v.s # ""
      [] OTHER             -> TRUE

\* x || d
Or(v, d) == IF Truthy(v) THEN v ELSE d

IsArray(v) == v.t = "arr"

RECURSIVE Str(_)
RECURSIVE Join(_)
\* Array.prototype.join(','): null and undefined elements give ''.
Join(a) ==
    IF Len(a) = 0 THEN ""
    ELSE LET h  == IF Nullish(Head(a)) THEN "" ELSE Str(Head(a))
         IN  IF Len(a) = 1 THEN h ELSE h \o "," \o Join(Tail(a))

\* String(v)
Str(v) ==
    CASE v.t = "str"       -> v.s
      [] v.t = "num"       -> ToString(v.n)
      [] v.t = "null"      -> "null"
      [] v.t = "undefined" -> "undefined"
      [] v.t = "arr"       -> Join(v.a)
      [] v.t = "obj"       -> "[object Object]"

\* x ? String(x) : undefined
OptStr(v) == IF Truthy(v) THEN JStr(Str(v)) ELSE Undefined

\* Array.isArray(x) ? x.map(String) : d
StrList(v, d) ==
    IF IsArray(v) THEN JArr([i \in DOMAIN v.a |-> JStr(Str(v.a[i]))]) ELSE d

Min(a, b) == IF a < b THEN a ELSE b

\* a.slice(0, n)
Slice_Last(a, n) == SubSeq(a, Len(a) - Min(Len(a), n) + 1, Len(a))

Slice(a, n) == SubSeq(a, 1, Min(Len(a), n))

(***************************************************************************)
(* Enum validators.                                                        *)
(***************************************************************************)
WitnessCategories ==
    {"timeline", "credibility", "inconsistency", "foundation", "impeachment", "general"}
Difficulties == {"easy", "medium", "hard"}
DepositionCategories ==
    {"gap", "contradiction", "timeline", "foundation", "impeachment", "follow_up", "general"}
Priorities == {"high", "medium", "low"}
Severities == {"minor", "moderate", "significant"}

\* valid.includes(x) on an array of strings: SameValueZero, so only a string
\* can be a member.
Includes(valid, v) == v.t = "str" /\ v.s \in valid

validateCategoryW(v) == IF Includes(WitnessCategories, v) THEN v.s ELSE "general"
validateDifficulty(v) == IF Includes(Difficulties, v) THEN v.s ELSE "medium"
validateCategory(v) == IF Includes(DepositionCategories, v) THEN v.s ELSE "general"
validatePriority_Unchecked(v) == v.s

validatePriority(v) == IF Includes(Priorities, v) THEN v.s ELSE "medium"
validateSeverity(v) == IF Includes(Severities, v) THEN v.s ELSE "moderate"

(***************************************************************************)
(* Identities.  uuidv4() returns a fresh value on every call; the model    *)
(* names the value by the request that made the call, the list it went     *)
(* into and the position in that list.                                     *)
(***************************************************************************)
uuidv4(n, k, i) == [r |-> n, k |-> k, i |-> i]

WithIds(items, n, k) ==
    [i \in DOMAIN items |-> [items[i] EXCEPT !.id = uuidv4(n, k, i)]]

NoId == [r |-> 0, k |-> "", i |-> 0]

\* Outcome of a block of code that may raise.
Thrown == [ok |-> FALSE]
Ok(v) == [ok |-> TRUE, v |-> v]

\* a.map(f) where f reads properties of its argument: raises on a null
\* element.
MapThrows(a) == \E i \in DOMAIN a : Nullish(a[i])

(***************************************************************************)
(* Witness endpoint: transformation of the parsed array.                   *)
(***************************************************************************)
QUESTION_CAP == 20

WitnessQuestion(q) ==
    [id                |-> NoId,
     question          |-> JStr(Str(Or(Get(q, "question"), JStr("Question not available")))),
     category          |-> validateCategoryW(JStr(Str(Or(Get(q, "category"), JStr("general"))))),
     difficulty        |-> validateDifficulty(JStr(Str(Or(Get(q, "difficulty"), JStr("medium"))))),
     suggestedApproach |-> OptStr(Get(q, "suggestedApproach")),
     weakPoint         |-> OptStr(Get(q, "weakPoint")),
     followUpQuestions |-> StrList(Get(q, "followUpQuestions"), Undefined),
     documentReference |-> OptStr(Get(q, "documentReference"))]

\* questionsData.slice(0, 20).map(...)
WitnessTransform(questionsData, n) ==
    LET kept == Slice(questionsData.a, QUESTION_CAP)
    IN  IF MapThrows(kept) THEN Thrown
        ELSE Ok(WithIds([i \in DOMAIN kept |-> WitnessQuestion(kept[i])], n, "q"))

(***************************************************************************)
(* Streaming endpoint: transformation of the parsed value.  Only the enum  *)
(* fields are validated; the other fields are stored as they came.         *)
(***************************************************************************)
StreamQuestion(q) ==
    [id                |-> NoId,
     question          |-> Get(q, "question"),
     category          |-> validateCategoryW(Get(q, "category")),
     difficulty        |-> validateDifficulty(Get(q, "difficulty")),
     suggestedApproach |-> Get(q, "suggestedApproach"),
     weakPoint         |-> Get(q, "weakPoint"),
     followUpQuestions |-> Get(q, "followUpQuestions"),
     documentReference |-> Get(q, "documentReference")]

StreamTransform(questionsData, n) ==
    IF ~IsArray(questionsData) \/ Len(questionsData.a) = 0 THEN Thrown
    ELSE LET kept == Slice(questionsData.a, QUESTION_CAP)
         IN  IF MapThrows(kept) THEN Thrown
             ELSE Ok(WithIds([i \in DOMAIN kept |-> StreamQuestion(kept[i])], n, "q"))

(***************************************************************************)
(* Deposition endpoint: transformation of the parsed object.               *)
(***************************************************************************)
DepositionGap(g) ==
    [id                 |-> NoId,
     description        |-> JStr(Str(Or(Get(g, "description"), JStr("")))),
     documentReferences |-> StrList(Get(g, "documentReferences"), JArr(<<>>)),
     severity           |-> validateSeverity(JStr(Str(Or(Get(g, "severity"), JStr("moderate"))))),
     suggestedQuestions |-> StrList(Get(g, "suggestedQuestions"), JArr(<<>>))]

\* (c.sourceN)?.f
OptGet(v, f) == IF Nullish(v) THEN Undefined ELSE Get(v, f)

ContradictionSource(s) ==
    [document |-> JStr(Str(Or(OptGet(s, "document"), JStr("")))),
     excerpt  |-> JStr(Str(Or(OptGet(s, "excerpt"), JStr("")))),
     page     |-> OptStr(OptGet(s, "page"))]

DepositionContradiction(c) ==
    [id                 |-> NoId,
     description        |-> JStr(Str(Or(Get(c, "description"), JStr("")))),
     source1            |-> ContradictionSource(Get(c, "source1")),
     source2            |-> ContradictionSource(Get(c, "source2")),
     severity           |-> validateSeverity(JStr(Str(Or(Get(c, "severity"), JStr("moderate"))))),
     suggestedQuestions |-> StrList(Get(c, "suggestedQuestions"), JArr(<<>>))]

DepositionQuestion(q) ==
    [id                |-> NoId,
     question          |-> JStr(Str(Or(Get(q, "question"), JStr("Question not available")))),
     topic             |-> JStr(Str(Or(Get(q, "topic"), JStr("General")))),
     category          |-> validateCategory(JStr(Str(Or(Get(q, "category"), JStr("general"))))),
     priority          |-> validatePriority(JStr(Str(Or(Get(q, "priority"), JStr("medium"))))),
     documentReference |-> OptStr(Get(q, "documentReference")),
     pageReference     |-> OptStr(Get(q, "pageReference")),
     rationale         |-> OptStr(Get(q, "rationale")),
     followUpQuestions |-> StrList(Get(q, "followUpQuestions"), Undefined),
     exhibitToShow     |-> OptStr(Get(q, "exhibitToShow"))]

TimelineEvent(e) ==
    [date   |-> JStr(Str(Or(Get(e, "date"), JStr("")))),
     event  |-> JStr(Str(Or(Get(e, "event"), JStr("")))),
     source |-> JStr(Str(Or(Get(e, "source"), JStr(""))))]

DepositionAnalysis(analysisData) ==
    [keyThemes      |-> StrList(Get(analysisData, "keyThemes"), JArr(<<>>)),
     timelineEvents |-> IF IsArray(Get(analysisData, "timelineEvents"))
                        THEN LET ev == Get(analysisData, "timelineEvents").a
                             IN  [i \in DOMAIN ev |-> TimelineEvent(ev[i])]
                        ELSE <<>>,
     witnesses      |-> StrList(Get(analysisData, "witnesses"), JArr(<<>>)),
     keyExhibits    |-> StrList(Get(analysisData, "keyExhibits"), JArr(<<>>))]

\* The body of `if (parsedData && parsedData.questions) { ... }`.  x.map
\* raises when x is not an array (a string, a number and a plain object have
\* no map method) or when an element is null.
DepositionTransform(parsedData, n) ==
    LET g  == Or(Get(parsedData, "gaps"), JArr(<<>>))
        c  == Or(Get(parsedData, "contradictions"), JArr(<<>>))
        q  == Get(parsedData, "questions")
        ad == Or(Get(parsedData, "analysis"), JObj(<<>>))
        te == Get(ad, "timelineEvents")
    IN  IF \/ ~IsArray(g) \/ ~IsArray(c) \/ ~IsArray(q)
           \/ MapThrows(g.a) \/ MapThrows(c.a)
           \/ MapThrows(Slice(q.a, QUESTION_CAP))
           \/ (IsArray(te) /\ MapThrows(te.a))
        THEN Thrown
        ELSE LET kept == Slice(q.a, QUESTION_CAP)
             IN  Ok([gaps           |-> WithIds([i \in DOMAIN g.a |-> DepositionGap(g.a[i])], n, "g"),
                     contradictions |-> WithIds([i \in DOMAIN c.a |-> DepositionContradiction(c.a[i])], n, "c"),
                     questions      |-> WithIds([i \in DOMAIN kept |-> DepositionQuestion(kept[i])], n, "q"),
                     analysis       |-> DepositionAnalysis(ad)])


(***************************************************************************)
(* Documents.  The text of a document is represented by what the           *)
(* extraction regexes find in it: for each class the list of matches in    *)
(* text order (String.prototype.match with the g flag), and the list of    *)
(* pieces of content.split(/[.!?]+/) whose trimmed length exceeds 20.      *)
(***************************************************************************)
Text(names, dates, amounts, locations, phrases, sentences) ==
    [t |-> "text", names |-> names, dates |-> dates, amounts |-> amounts,
     locations |-> locations, phrases |-> phrases, sentences |-> sentences]

EmptyText == Text(<<>>, <<>>, <<>>, <<>>, <<>>, <<>>)

\* (doc.content || '').match(re) || []
Matches(doc, class) ==
    IF doc.content.t = "text" THEN doc.content[class] ELSE <<>>

(***************************************************************************)
(* Witness fallback synthesizer: a fixed list of twenty questions.         *)
(***************************************************************************)
WitnessFallbackTemplates ==
    <<
      [pre |-> "You've reviewed documents related to this case. Can you tell us exactly when you first became aware of the events described in ",
       dflt |-> "the documents", post |-> "?",
       category |-> "timeline", difficulty |-> "medium", ref |-> "first"],
      [pre |-> "Looking at the documents you've reviewed, can you identify any statements that you now believe may have been inaccurate?",
       dflt |-> "", post |-> "",
       category |-> "credibility", difficulty |-> "hard", ref |-> "all"],
      [pre |-> "You mentioned specific details in your statement. How can you be so certain about these details after all this time?",
       dflt |-> "", post |-> "",
       category |-> "credibility", difficulty |-> "medium", ref |-> "first"],
      [pre |-> "Based on the documents in this case, there appear to be gaps in the timeline. Can you explain what happened during these periods?",
       dflt |-> "", post |-> "",
       category |-> "timeline", difficulty |-> "medium", ref |-> "all"],
      [pre |-> "The documents suggest a particular sequence of events. Do you agree with that sequence, or do you recall it differently?",
       dflt |-> "", post |-> "",
       category |-> "inconsistency", difficulty |-> "hard", ref |-> "first"],
      [pre |-> "Were you under any stress or distraction at the time of the events described in these documents?",
       dflt |-> "", post |-> "",
       category |-> "foundation", difficulty |-> "medium", ref |-> "all"],
      [pre |-> "Looking at the specific details in the documents, how do you explain any discrepancies between what's written and what you're testifying to today?",
       dflt |-> "", post |-> "",
       category |-> "inconsistency", difficulty |-> "hard", ref |-> "first"],
      [pre |-> "Can you explain your role in the events documented in ",
       dflt |-> "the case materials", post |-> "?",
       category |-> "foundation", difficulty |-> "easy", ref |-> "first"],
      [pre |-> "The documents reference specific communications. Did you keep copies of all relevant communications?",
       dflt |-> "", post |-> "",
       category |-> "foundation", difficulty |-> "medium", ref |-> "all"],
      [pre |-> "Is there anything in these documents that you believe is false or misleading?",
       dflt |-> "", post |-> "",
       category |-> "inconsistency", difficulty |-> "hard", ref |-> "all"],
      [pre |-> "Regarding the events in ",
       dflt |-> "the documents", post |-> ", who else was present that could corroborate your account?",
       category |-> "foundation", difficulty |-> "medium", ref |-> "first"],
      [pre |-> "The documents indicate certain actions were taken. Were you consulted before these actions occurred?",
       dflt |-> "", post |-> "",
       category |-> "foundation", difficulty |-> "medium", ref |-> "all"],
      [pre |-> "How soon after the events described in the documents did you first document your recollection?",
       dflt |-> "", post |-> "",
       category |-> "timeline", difficulty |-> "medium", ref |-> "first"],
      [pre |-> "Have you reviewed these documents with anyone before today's testimony?",
       dflt |-> "", post |-> "",
       category |-> "credibility", difficulty |-> "easy", ref |-> "all"],
      [pre |-> "Is there any information relevant to this case that is NOT contained in these documents?",
       dflt |-> "", post |-> "",
       category |-> "foundation", difficulty |-> "hard", ref |-> "all"],
      [pre |-> "How did you prepare for your testimony today?",
       dflt |-> "", post |-> "",
       category |-> "general", difficulty |-> "easy", ref |-> "fixed"],
      [pre |-> "Are you being compensated in any way for your testimony, or do you have any financial interest in the outcome of this case?",
       dflt |-> "", post |-> "",
       category |-> "general", difficulty |-> "easy", ref |-> "fixed"],
      [pre |-> "What is your relationship to the parties in this case?",
       dflt |-> "", post |-> "",
       category |-> "general", difficulty |-> "easy", ref |-> "fixed"],
      [pre |-> "How would you describe your memory in general? Is there anything about your testimony today that you're not completely certain about?",
       dflt |-> "", post |-> "",
       category |-> "general", difficulty |-> "medium", ref |-> "fixed"],
      [pre |-> "Have you ever given testimony in any proceeding that was later found to be inaccurate or that you needed to correct?",
       dflt |-> "", post |-> "",
       category |-> "general", difficulty |-> "hard", ref |-> "fixed"]
    >>
RECURSIVE JoinWith(_, _)
\* a.join(sep) on an array of strings
JoinWith(a, sep) ==
    IF Len(a) = 0 THEN ""
    ELSE IF Len(a) = 1 THEN a[1]
    ELSE a[1] \o sep \o JoinWith(Tail(a), sep)

\* documents[0]?.name || d
FirstNameOr(documents, d) ==
    IF Len(documents) > 0 /\ documents[1].name # "" THEN documents[1].name ELSE d

generateFallbackQuestionsW(caseName, witnessName, documents) ==
    LET docNames == JoinWith([i \in DOMAIN documents |-> documents[i].name], ", ")
        Entry(tp) ==
            [id                |-> NoId,
             question          |-> JStr(IF tp.dflt = "" THEN tp.pre
                                        ELSE tp.pre \o FirstNameOr(documents, tp.dflt) \o tp.post),
             category          |-> tp.category,
             difficulty        |-> tp.difficulty,
             suggestedApproach |-> JStr("approach"),
             weakPoint         |-> JStr("weak point"),
             followUpQuestions |-> JArr(<<JStr("follow-up 1"), JStr("follow-up 2")>>),
             documentReference |-> JStr(CASE tp.ref = "first" -> FirstNameOr(documents, "Case Documents")
                                          [] tp.ref = "all"   -> docNames
                                          [] OTHER            -> "General Cross-Examination")]
    IN  [i \in DOMAIN WitnessFallbackTemplates |-> Entry(WitnessFallbackTemplates[i])]

(***************************************************************************)
(* Deposition fallback synthesizer.                                        *)
(***************************************************************************)
RECURSIVE AddAll(_, _)
RECURSIVE AddAll_KeepsDuplicates(_, _)
\* As AddAll, on an array instead of a Set.
AddAll_KeepsDuplicates(set, items) ==
    IF Len(items) = 0 THEN set
    ELSE AddAll_KeepsDuplicates(Append(set, Head(items)), Tail(items))

\* items.forEach(x => set.add(x)); a Set keeps insertion order and ignores
\* a value it already holds.
AddAll(set, items) ==
    IF Len(items) = 0 THEN set
    ELSE AddAll(IF \E i \in DOMAIN set : set[i] = Head(items)
                THEN set ELSE Append(set, Head(items)),
                Tail(items))

NAME_CAP == 5
DATE_CAP == 5
AMOUNT_CAP == 3
LOCATION_CAP == 3
PHRASE_CAP == 3
SUMMARY_SENTENCES == 2
SUMMARY_LEN == 200

RECURSIVE Trim(_)
Trim(s) ==
    IF Len(s) = 0 THEN s
    ELSE IF SubSeq(s, 1, 1) = " " THEN Trim(SubSeq(s, 2, Len(s)))
    ELSE IF SubSeq(s, Len(s), Len(s)) = " " THEN Trim(SubSeq(s, 1, Len(s) - 1))
    ELSE s

\* s.substring(0, n)
Substring0(s, n) == SubSeq(s, 1, Min(Len(s), n))

EmptyDetails ==
    [names |-> <<>>, dates |-> <<>>, amounts |-> <<>>, locations |-> <<>>,
     keyPhrases |-> <<>>, documentSummaries |-> <<>>]

RECURSIVE extractDocumentDetailsFrom(_, _)
extractDocumentDetailsFrom(acc, documents) ==
    IF Len(documents) = 0 THEN acc
    ELSE LET doc       == Head(documents)
             locs      == Slice(Matches(doc, "locations"), LOCATION_CAP)
             sentences == Slice(Matches(doc, "sentences"), SUMMARY_SENTENCES)
         IN  extractDocumentDetailsFrom(
               [names      |-> AddAll(acc.names, Slice(Matches(doc, "names"), NAME_CAP)),
                dates      |-> AddAll(acc.dates, Slice(Matches(doc, "dates"), DATE_CAP)),
                amounts    |-> AddAll(acc.amounts, Slice(Matches(doc, "amounts"), AMOUNT_CAP)),
                \* l.replace(/^(?:in|at|from|to)\s+/i, ''): a match is the
                \* pair <<preposition, place>> and the place is what is kept
                locations  |-> AddAll(acc.locations, [i \in DOMAIN locs |-> locs[i][2]]),
                keyPhrases |-> AddAll(acc.keyPhrases, Slice(Matches(doc, "phrases"), PHRASE_CAP)),
                documentSummaries |->
                    IF Len(sentences) > 0
                    THEN Append(acc.documentSummaries,
                                [name    |-> doc.name,
                                 summary |-> Substring0(Trim(JoinWith(sentences, ". ")), SUMMARY_LEN)])
                    ELSE acc.documentSummaries],
               Tail(documents))

extractDocumentDetails(documents) == extractDocumentDetailsFrom(EmptyDetails, documents)

\* phrase.replace(/^["']|["']$/g, '').substring(0, 100)
CleanPhrase(phrase) ==
    LET a == IF Len(phrase) > 0 /\ SubSeq(phrase, 1, 1) \in {"\"", "'"}
             THEN SubSeq(phrase, 2, Len(phrase)) ELSE phrase
        b == IF Len(a) > 0 /\ SubSeq(a, Len(a), Len(a)) \in {"\"", "'"}
             THEN SubSeq(a, 1, Len(a) - 1) ELSE a
    IN  Substring0(b, 100)

\* docNames[i] (0-based i), undefined past the end
NameAt(docNames, i) == IF i + 1 \in DOMAIN docNames THEN JStr(docNames[i + 1]) ELSE Undefined

FQ(question, topic, category, priority, documentReference, rationale, followUps) ==
    [id                |-> NoId,
     question          |-> JStr(question),
     topic             |-> JStr(topic),
     category          |-> category,
     priority          |-> priority,
     documentReference |-> documentReference,
     pageReference     |-> Undefined,
     rationale         |-> JStr(rationale),
     followUpQuestions |-> JArr([i \in DOMAIN followUps |-> JStr(followUps[i])]),
     exhibitToShow     |-> Undefined]

FALLBACK_FLOOR == 10
DATE_QUESTIONS == 3
NAME_QUESTIONS == 3
AMOUNT_QUESTIONS == 2
PHRASE_QUESTIONS == 3
SUMMARY_QUESTIONS == 2

\* xs.forEach((x, index) => { if (index < cap && keep(x)) questions.push(make(x, index)) })
Indexes(xs, cap) == [i \in 1..Min(Len(xs), cap) |-> i]

PaddingQuestion(doc) ==
    FQ("Regarding " \o doc.name \o ", explain your involvement in the matters described in this document and what actions you took.",
       "Document Involvement", "foundation", "medium", JStr(doc.name),
       "Understanding the deponent's specific involvement with each document is essential.",
       <<"What was your role in creating or receiving this document?",
         "Who else was involved?",
         "What happened after this document was created?">>)

RECURSIVE PadToFloor(_, _)
RECURSIVE PadToFloor_Overshoots(_, _)
PadToFloor_Overshoots(questions, documents) ==
    IF Len(questions) <= FALLBACK_FLOOR
    THEN PadToFloor_Overshoots(Append(questions,
                           PaddingQuestion(documents[(Len(questions) % Len(documents)) + 1])),
                    documents)
    ELSE questions

\* while (questions.length < 10) { ... documents[questions.length % documents.length] ... }
PadToFloor(questions, documents) ==
    IF Len(questions) < FALLBACK_FLOOR
    THEN PadToFloor(Append(questions,
                           PaddingQuestion(documents[(Len(questions) % Len(documents)) + 1])),
                    documents)
    ELSE questions

FallbackGaps(details, docNames) ==
    (IF Len(details.dates) > 0
     THEN << [id |-> NoId,
              description |-> JStr("Timeline details around " \o details.dates[1] \o " need clarification - the documents reference this date but lack context about what specifically occurred"),
              documentReferences |-> JArr([i \in DOMAIN Slice(docNames, 2) |-> JStr(docNames[i])]),
              severity |-> "moderate",
              suggestedQuestions |-> JArr(<<JStr("What specifically happened on " \o details.dates[1] \o "?"),
                                           JStr("Who else was involved in the events of " \o details.dates[1] \o "?"),
                                           JStr("What led up to the events on " \o details.dates[1] \o "?")>>)] >>
     ELSE <<>>)
    \o
    (IF Len(details.names) > 1
     THEN << [id |-> NoId,
              description |-> JStr("The relationship and communications between " \o details.names[1] \o " and " \o details.names[2] \o " are not fully documented"),
              documentReferences |-> JArr([i \in DOMAIN Slice(docNames, 1) |-> JStr(docNames[i])]),
              severity |-> "significant",
              suggestedQuestions |-> JArr(<<JStr("What was the nature of your communications with " \o details.names[2] \o "?"),
                                           JStr("How often did you interact with " \o details.names[2] \o " during this period?"),
                                           JStr("Were there any undocumented conversations with " \o details.names[2] \o "?")>>)] >>
     ELSE <<>>)

FallbackEntityQuestions(details, docNames, deponentName) ==
    LET dateIx   == Indexes(details.dates, DATE_QUESTIONS)
        nameIx   == SelectSeq(Indexes(details.names, NAME_QUESTIONS),
                              LAMBDA i : details.names[i] # deponentName)
        amountIx == Indexes(details.amounts, AMOUNT_QUESTIONS)
        phraseIx == Indexes(details.keyPhrases, PHRASE_QUESTIONS)
        sumIx    == Indexes(details.documentSummaries, SUMMARY_QUESTIONS)
        first(i) == IF i = 1 THEN "high" ELSE "medium"
    IN  [k \in DOMAIN dateIx |->
            LET date == details.dates[dateIx[k]]
            IN  FQ("The documents reference " \o date \o ". Walk me through exactly what happened on that date and your involvement.",
                   "Timeline of Events", "timeline", first(dateIx[k]), NameAt(docNames, 0),
                   "This date appears in the documents and establishing the specific events is critical to understanding the sequence of events.",
                   <<"Who else was present on " \o date \o "?",
                     "What communications occurred before and after " \o date \o "?",
                     "Do you have any documents from " \o date \o " that haven't been produced?">>)]
        \o
        [k \in DOMAIN nameIx |->
            LET name == details.names[nameIx[k]]
            IN  FQ(deponentName \o ", the documents mention " \o name \o ". Please describe your relationship with " \o name \o " and any interactions you had with them regarding this matter.",
                   "Witness Relationships", "foundation", first(nameIx[k]), NameAt(docNames, 0),
                   name \o " appears to be a key individual in the documents and understanding the deponent's interactions with them is essential.",
                   <<"When did you last communicate with " \o name \o "?",
                     "What did " \o name \o " tell you about this matter?",
                     "Did you ever have any disagreements with " \o name \o " about this?">>)]
        \o
        [k \in DOMAIN amountIx |->
            LET amount == details.amounts[amountIx[k]]
            IN  FQ("The documents reference " \o amount \o ". Explain what this amount represents and how it was determined.",
                   "Financial Details", "foundation", "high", NameAt(docNames, 0),
                   "Financial details are often central to disputes and this specific amount needs explanation.",
                   <<"Who approved this amount?",
                     "Were there any disputes about " \o amount \o "?",
                     "How was " \o amount \o " calculated?">>)]
        \o
        [k \in DOMAIN phraseIx |->
            FQ("The documents contain the statement: \"" \o CleanPhrase(details.keyPhrases[phraseIx[k]]) \o "...\" What did you mean by this and what were the circumstances?",
               "Prior Statements", "impeachment", "high", NameAt(docNames, 0),
               "This statement from the documents may be significant and the deponent should explain its context.",
               <<"Do you stand by this statement today?",
                 "Who else was aware of this?",
                 "What happened as a result of this?">>)]
        \o
        [k \in DOMAIN sumIx |->
            LET docSummary == details.documentSummaries[sumIx[k]]
            IN  FQ("Looking at " \o docSummary.name \o ", it discusses: \"" \o docSummary.summary \o "...\" What is your understanding of this and your role in it?",
                   "Document Content", "foundation", "high", JStr(docSummary.name),
                   "This document contains key information that the deponent should explain.",
                   <<"Were you involved in creating this document?",
                     "Is the information in this document accurate?",
                     "What actions were taken based on this document?">>)]

PriorTestimonyQuestion(doc) ==
    FQ("In your prior testimony in " \o doc.name \o ", you made certain statements. Have any of your recollections changed since then?",
       "Prior Testimony", "impeachment", "high", JStr(doc.name),
       "Comparing current testimony to prior statements can reveal inconsistencies.",
       <<"What specifically has changed in your recollection?",
         "Why do you remember things differently now?",
         "Have you reviewed your prior testimony before today?">>)

DocumentGapQuestion(docNames) ==
    FQ("The documents produced cover certain time periods but there appear to be gaps. What communications or documents exist from the periods not covered?",
       "Document Gaps", "gap", "high", NameAt(docNames, 0),
       "Identifying missing documents is critical to understanding the complete picture.",
       <<"Were any documents destroyed or deleted?",
         "Who else might have relevant documents?",
         "What was your document retention practice during this period?">>)

ConsistencyQuestion(docNames) ==
    FQ("I've reviewed " \o docNames[1] \o " and " \o docNames[2] \o ". There appear to be differences in how events are described. Can you explain any discrepancies between these documents?",
       "Document Consistency", "contradiction", "high", NameAt(docNames, 0),
       "Multiple documents may contain inconsistent information that needs explanation.",
       <<"Which document is more accurate?",
         "When were each of these documents created?",
         "Who else reviewed these documents?">>)

\* As FallbackFixedQuestions, with only the type prior_testimony counted as
\* prior testimony.
FallbackFixedQuestions_TranscriptIgnored(documents, docNames) ==
    LET priorTestimonyDocs == SelectSeq(documents, LAMBDA d : d.type = "prior_testimony")
    IN  (IF Len(priorTestimonyDocs) > 0 THEN <<PriorTestimonyQuestion(priorTestimonyDocs[1])>> ELSE <<>>)
        \o <<DocumentGapQuestion(docNames)>>
        \o (IF Len(documents) > 1 THEN <<ConsistencyQuestion(docNames)>> ELSE <<>>)

FallbackFixedQuestions(documents, docNames) ==
    LET priorTestimonyDocs ==
            SelectSeq(documents, LAMBDA d : d.type = "prior_testimony" \/ d.type = "transcript")
    IN  (IF Len(priorTestimonyDocs) > 0 THEN <<PriorTestimonyQuestion(priorTestimonyDocs[1])>> ELSE <<>>)
        \o <<DocumentGapQuestion(docNames)>>
        \o (IF Len(documents) > 1 THEN <<ConsistencyQuestion(docNames)>> ELSE <<>>)

FallbackAnalysis(details, docNames) ==
    [keyThemes      |-> IF Len(details.names) > 0
                        THEN JArr(<<JStr("Involvement of " \o JoinWith(Slice(details.names, 2), " and ")),
                                    JStr("Timeline of Events"), JStr("Document Authenticity")>>)
                        ELSE JArr(<<JStr("Timeline of Events"), JStr("Document Authenticity"),
                                    JStr("Communications")>>),
     timelineEvents |-> [i \in DOMAIN details.dates |->
                            [date   |-> JStr(details.dates[i]),
                             event  |-> JStr("Event referenced in documents"),
                             source |-> JStr(docNames[((i - 1) % Len(docNames)) + 1])]],
     witnesses      |-> JArr([i \in DOMAIN Slice(details.names, 5) |-> JStr(details.names[i])]),
     keyExhibits    |-> JArr([i \in DOMAIN Slice(docNames, 5) |-> JStr(docNames[i])])]

FallbackThrows_Always(documents) == TRUE

\* With no document the padding loop reads documents[NaN].name and raises.
FallbackThrows(documents) == Len(documents) = 0

generateFallbackQuestions(caseName, deponentName, documents) ==
    LET docNames == [i \in DOMAIN documents |-> documents[i].name]
        details  == extractDocumentDetails(documents)
    IN  [gaps           |-> FallbackGaps(details, docNames),
         contradictions |-> <<>>,
         questions      |-> PadToFloor(FallbackEntityQuestions(details, docNames, deponentName)
                                       \o FallbackFixedQuestions(documents, docNames),
                                       documents),
         analysis       |-> FallbackAnalysis(details, docNames)]


(***************************************************************************)
(* State.                                                                  *)
(***************************************************************************)
VARIABLES
    now,                \* wall clock, in hours
    apiKey,             \* process.env.CASEDEV_API_KEY is set
    sessions,           \* witness store: Map<id, PracticeSession>
    depositionSessions, \* deposition store: Map<id, DepositionSession>
    docArrays,          \* the documents array of every session ever created;
                        \* a handler's local `session` keeps the array alive
                        \* after the session has left the store
    req,                \* the request each handler slot is serving
    nreq,               \* requests started so far
    llmCalls,           \* fetches issued to the chat-completion endpoint
    pin, pout           \* argument and result of a function under test

vars == <<now, apiKey, sessions, depositionSessions, docArrays, req, nreq, llmCalls, pin, pout>>

\* Bounds
MaxSessions == 1
MaxRequests == 3
MaxInFlight == 2

\* 24 * 60 * 60 * 1000 ms
SESSION_TTL == 24

Slots == 1..MaxInFlight
Families == {"witness", "deposition"}

WitnessNames == {"Ann Lee"}
CaseNames == {"Lee v. Ray"}

Idle == [pc |-> "idle"]
NoValue == [t |-> "none"]

(***************************************************************************)
(* Session stores.                                                         *)
(***************************************************************************)
\* As Expired, with a session going at the age of SESSION_TTL already.
Expired_AtTTL(store) == {id \in DOMAIN store : now - store[id].createdAt >= SESSION_TTL}

\* The ids of the sessions the sweep removes.
Expired(store) == {id \in DOMAIN store : now - store[id].createdAt > SESSION_TTL}

cleanupOldSessions(store) ==
    [id \in DOMAIN store \ Expired(store) |-> store[id]]

createSession(store, id, witnessName, caseName) ==
    LET swept == cleanupOldSessions(store)
    IN  [i \in DOMAIN swept \cup {id} |->
            IF i = id
            THEN [id |-> id, witnessName |-> witnessName, caseName |-> caseName,
                  createdAt |-> now, questions |-> <<>>, status |-> "setup",
                  practiceHistory |-> <<>>, totalDuration |-> 0]
            ELSE swept[i]]

createDepositionSession(store, id, deponentName, caseName) ==
    LET swept == cleanupOldSessions(store)
    IN  [i \in DOMAIN swept \cup {id} |->
            IF i = id
            THEN [id |-> id, deponentName |-> deponentName, caseName |-> caseName,
                  createdAt |-> now, gaps |-> <<>>, contradictions |-> <<>>,
                  questions |-> <<>>, outline |-> JNull, status |-> "setup",
                  analysis |-> Undefined]
            ELSE swept[i]]

\* { ...session, ...updates } written back under the same key
updateSession(store, sessionId, updates) ==
    IF sessionId \notin DOMAIN store THEN store
    ELSE [store EXCEPT ![sessionId] =
            [f \in DOMAIN store[sessionId] |->
                IF f \in DOMAIN updates THEN updates[f] ELSE store[sessionId][f]]]

\* As setQuestions, adding the questions to those the session holds.
setQuestions_Appends(store, sessionId, questions) ==
    IF sessionId \notin DOMAIN store THEN store
    ELSE [store EXCEPT ![sessionId].questions = @ \o questions,
                       ![sessionId].status = "ready"]

setQuestions(store, sessionId, questions) ==
    IF sessionId \notin DOMAIN store THEN store
    ELSE [store EXCEPT ![sessionId].questions = questions,
                       ![sessionId].status = "ready"]

setAnalysisResults_NoAnalysis(store, sessionId, gaps, contradictions, analysis) ==
    IF sessionId \notin DOMAIN store THEN store
    ELSE [store EXCEPT ![sessionId].gaps = gaps,
                       ![sessionId].contradictions = contradictions]

setAnalysisResults(store, sessionId, gaps, contradictions, analysis) ==
    IF sessionId \notin DOMAIN store THEN store
    ELSE [store EXCEPT ![sessionId].gaps = gaps,
                       ![sessionId].contradictions = contradictions,
                       ![sessionId].analysis = analysis]

\* session.documents.push(document)
addDocument(arrays, store, family, sessionId, document) ==
    IF sessionId \notin DOMAIN store THEN arrays
    ELSE [arrays EXCEPT ![family][sessionId] = Append(@, document)]

\* session.documents[docIndex] = { ...session.documents[docIndex], ...updates }
updateDocument(arrays, store, family, sessionId, documentId, content) ==
    IF sessionId \notin DOMAIN store THEN arrays
    ELSE [arrays EXCEPT ![family][sessionId] =
            [i \in DOMAIN @ |->
                IF /\ @[i].id = documentId
                   /\ \A j \in 1..(i - 1) : @[j].id # documentId
                THEN [@[i] EXCEPT !.content = content, !.status = "ready"]
                ELSE @[i]]]

\* store.get(sessionId), serialized, or null
SessionOrNull(store, sessionId) ==
    IF sessionId \in DOMAIN store THEN store[sessionId] ELSE JNull

Init ==
    /\ now = 0
    /\ apiKey \in BOOLEAN
    /\ sessions = <<>>
    /\ depositionSessions = <<>>
    /\ docArrays = [f \in Families |-> <<>>]
    /\ req = [r \in Slots |-> Idle]
    /\ nreq = 0
    /\ llmCalls = 0
    /\ pin = NoValue
    /\ pout = NoValue

\* POST /api/sessions
CreateSession ==
    /\ Len(docArrays["witness"]) < MaxSessions
    /\ \E witnessName \in WitnessNames, caseName \in CaseNames :
         sessions' = createSession(sessions, Len(docArrays["witness"]) + 1, witnessName, caseName)
    /\ docArrays' = [docArrays EXCEPT !["witness"] = Append(@, <<>>)]
    /\ UNCHANGED <<now, apiKey, depositionSessions, req, nreq, llmCalls, pin, pout>>

\* POST /api/depositions
CreateDepositionSession ==
    /\ Len(docArrays["deposition"]) < MaxSessions
    /\ \E deponentName \in WitnessNames, caseName \in CaseNames :
         depositionSessions' =
            createDepositionSession(depositionSessions, Len(docArrays["deposition"]) + 1,
                                    deponentName, caseName)
    /\ docArrays' = [docArrays EXCEPT !["deposition"] = Append(@, <<>>)]
    /\ UNCHANGED <<now, apiKey, sessions, req, nreq, llmCalls, pin, pout>>

(***************************************************************************)
(* Requests.  A slot holds the handler's locals across its awaits.         *)
(***************************************************************************)
Request(pc, route, sid, n, file, caseName, name, resp) ==
    [pc |-> pc, route |-> route, sid |-> sid, n |-> n, file |-> file,
     caseName |-> caseName, name |-> name, llm |-> NoValue, resp |-> resp]

Free(r) == req[r].pc \in {"idle", "done"}

\* A new request is served by the first handler slot that is not in use.
Accepts(r) == Free(r) /\ \A q \in 1..(r - 1) : ~Free(q)

ErrorResponse(status, error) == [status |-> status, error |-> error]

Store(family) == IF family = "witness" THEN sessions ELSE depositionSessions

\* session.documents, read through the handler's reference
Documents(family, sid) == docArrays[family][sid]

\* Ids a request may name: every id ever issued, and one that never was.
RequestableIds == 1..(MaxSessions + 1)

(***************************************************************************)
(* Document upload: POST /api/sessions/[id]/documents and                  *)
(* POST /api/depositions/[id]/documents.                                   *)
(***************************************************************************)
NoFile == [t |-> "nofile"]

File(name, ext, type, allowed, content) ==
    [t |-> "file", name |-> name, ext |-> ext, type |-> type,
     allowed |-> allowed, content |-> content]

MemoText ==
    Text(<<"Ann Lee", "Bob Ray">>, <<"2020-01-02">>, <<"$5,000">>,
         <<<<"in", "Boston">>>>, <<"\"we never shipped the goods\"">>,
         <<"The memo says the goods shipped late">>)

Files ==
    { NoFile,
      File("memo.txt", "txt", "exhibit", TRUE, MemoText),
      \* `[PDF Document: depo.pdf]`: nothing for the regexes to find
      File("depo.pdf", "pdf", "transcript", TRUE, EmptyText) }

NewDocument(n, file) ==
    [id |-> uuidv4(n, "d", 1), name |-> file.name, type |-> file.type,
     status |-> "processing", content |-> Undefined]

UploadResponse(family, sid, store) ==
    [status |-> 200, session |-> SessionOrNull(store, sid)]

\* up to `await request.formData()`
UploadPOST(r, family, sid) ==
    /\ Accepts(r)
    /\ nreq < MaxRequests
    /\ nreq' = nreq + 1
    /\ req' = [req EXCEPT ![r] =
          IF sid \notin DOMAIN Store(family)
          THEN Request("done", "upload_" \o family, sid, nreq + 1, NoValue, "", "",
                       ErrorResponse(404, "Session not found"))
          ELSE Request("formData", "upload_" \o family, sid, nreq + 1, NoValue, "", "", NoValue)]
    /\ UNCHANGED <<now, apiKey, sessions, depositionSessions, docArrays, llmCalls, pin, pout>>

\* from the form data to `await file.text()` or, for a file that is not
\* plain text, to the response
UploadForm(r, file) ==
    /\ req[r].pc = "formData"
    /\ LET family == IF req[r].route = "upload_witness" THEN "witness" ELSE "deposition"
           sid    == req[r].sid
           n      == req[r].n
           doc    == NewDocument(n, file)
           added  == addDocument(docArrays, Store(family), family, sid, doc)
       IN  IF file = NoFile
           THEN /\ req' = [req EXCEPT ![r].pc = "done",
                                      ![r].resp = ErrorResponse(400, "No file provided")]
                /\ UNCHANGED docArrays
           ELSE IF ~file.allowed
           THEN /\ req' = [req EXCEPT ![r].pc = "done",
                                      ![r].resp = ErrorResponse(400, "Invalid file type")]
                /\ UNCHANGED docArrays
           ELSE IF file.ext = "txt"
           THEN /\ req' = [req EXCEPT ![r].pc = "fileText", ![r].file = file]
                \* the witness route stores the record before reading the text
                /\ docArrays' = IF family = "witness" THEN added ELSE docArrays
           ELSE /\ docArrays' = updateDocument(added, Store(family), family, sid, doc.id, file.content)
                /\ req' = [req EXCEPT ![r].pc = "done", ![r].file = file,
                                      ![r].resp = UploadResponse(family, sid, Store(family))]
    /\ UNCHANGED <<now, apiKey, sessions, depositionSessions, nreq, llmCalls, pin, pout>>

\* from the text of the file to the response
UploadText(r) ==
    /\ req[r].pc = "fileText"
    /\ LET family == IF req[r].route = "upload_witness" THEN "witness" ELSE "deposition"
           sid    == req[r].sid
           file   == req[r].file
           doc    == NewDocument(req[r].n, file)
           added  == IF family = "witness" THEN docArrays
                     ELSE addDocument(docArrays, Store(family), family, sid, doc)
       IN  /\ docArrays' = updateDocument(added, Store(family), family, sid, doc.id, file.content)
           /\ req' = [req EXCEPT ![r].pc = "done",
                                 ![r].resp = UploadResponse(family, sid, Store(family))]
    /\ UNCHANGED <<now, apiKey, sessions, depositionSessions, nreq, llmCalls, pin, pout>>

Upload ==
    \/ \E r \in Slots, family \in Families, sid \in RequestableIds : UploadPOST(r, family, sid)
    \/ \E r \in Slots, file \in Files : UploadForm(r, file)
    \/ \E r \in Slots : UploadText(r)


(***************************************************************************)
(* What the chat-completion call can come back with.                       *)
(*   throw   : fetch, response.text() or response.json() rejects           *)
(*   notOk   : a response with response.ok false                           *)
(*   noBody  : (streaming) a response without a body                       *)
(*   empty   : choices[0].message.content missing or ''                    *)
(*   content : a completion text; `parsed` is what the route's parser      *)
(*             makes of it                                                 *)
(***************************************************************************)
Failure(k) == [k |-> k, parsed |-> NoValue]
Content(parsed) == [k |-> "content", parsed |-> parsed]

\* JSON.parse raised
SyntaxError == [t |-> "syntaxerror"]

GoodQ(i) ==
    JObj([question |-> JStr("Q" \o ToString(i)), topic |-> JStr("Shipment"),
          category |-> JStr("timeline"), difficulty |-> JStr("hard"),
          priority |-> JStr("high"), followUpQuestions |-> JArr(<<JStr("And then?")>>)])

LongList(n) == JArr([i \in 1..n |-> GoodQ(i)])

\* Bound: the longest question list a completion holds.
MaxPayloadLen == 21

GoodGap == JObj([description |-> JStr("missing invoice"), severity |-> JStr("minor")])

WitnessParsed ==
    { JNull,
      JArr(<<GoodQ(1), JStr("not an object")>>),
      JArr(<<JNull>>),
      LongList(MaxPayloadLen) }

DepositionParsed ==
    { JNull,
      JObj([questions |-> JArr(<<>>)]),
      JObj([questions |-> JArr(<<GoodQ(1)>>), gaps |-> JArr(<<GoodGap>>),
            analysis |-> JObj([keyThemes |-> JArr(<<JStr("delay")>>)])]),
      JObj([questions |-> JArr(<<GoodQ(1)>>), gaps |-> JStr("none")]),
      JObj([questions |-> LongList(MaxPayloadLen)]) }

StreamParsed ==
    { SyntaxError,
      JObj([questions |-> JArr(<<GoodQ(1)>>)]),
      JArr(<<GoodQ(1), JObj([category |-> JStr("bogus")])>>),
      JArr(<<JNull>>) }

WitnessOutcomes ==
    {Failure("throw"), Failure("notOk"), Failure("empty")} \cup {Content(p) : p \in WitnessParsed}
DepositionOutcomes ==
    {Failure("throw"), Failure("notOk"), Failure("empty")} \cup {Content(p) : p \in DepositionParsed}
StreamOutcomes ==
    {Failure("throw"), Failure("notOk"), Failure("noBody")} \cup {Content(p) : p \in StreamParsed}

(***************************************************************************)
(* The checks every generation route makes before it touches the session   *)
(* or calls the LLM: the status of the error response, or 0 to go on.      *)
(***************************************************************************)
PreconditionError_NoDocumentCheck(store, documents, sid) ==
    IF sid \notin DOMAIN store THEN 404
    ELSE IF ~apiKey THEN 500
    ELSE 0

PreconditionError(store, documents, sid) ==
    IF sid \notin DOMAIN store THEN 404
    ELSE IF Len(documents[sid]) = 0 THEN 400
    ELSE IF ~apiKey THEN 500
    ELSE 0

PreconditionMessage(status, notFound) ==
    CASE status = 404 -> notFound
      [] status = 400 -> "No documents uploaded. Please upload case materials first."
      [] status = 500 -> "Case.dev API key not configured."

(***************************************************************************)
(* POST /api/sessions/[sessionId]/generate-questions                       *)
(***************************************************************************)
WitnessResult_FlagNotSet(o, caseName, witnessName, documents, n) ==
    LET fallback ==
            [questions    |-> WithIds(generateFallbackQuestionsW(caseName, witnessName, documents), n, "q"),
             usedFallback |-> TRUE]
        tried ==
            IF o.k # "content" THEN fallback
            ELSE IF Truthy(o.parsed) /\ Len(o.parsed.a) > 0
            THEN LET t == WitnessTransform(o.parsed, n)
                 IN  IF t.ok THEN [questions |-> t.v, usedFallback |-> FALSE]
                     ELSE [fallback EXCEPT !.usedFallback = FALSE]
            ELSE fallback
    IN  IF Len(tried.questions) = 0 THEN fallback ELSE tried

\* The try block around the LLM call and the "at least some questions"
\* check after it: the questions and the usedFallback flag.
WitnessResult(o, caseName, witnessName, documents, n) ==
    LET fallback ==
            [questions    |-> WithIds(generateFallbackQuestionsW(caseName, witnessName, documents), n, "q"),
             usedFallback |-> TRUE]
        tried ==
            IF o.k # "content" THEN fallback
            ELSE IF Truthy(o.parsed) /\ Len(o.parsed.a) > 0
            THEN LET t == WitnessTransform(o.parsed, n)
                 IN  IF t.ok THEN [questions |-> t.v, usedFallback |-> FALSE]
                     ELSE fallback
            ELSE fallback
    IN  IF Len(tried.questions) = 0 THEN fallback ELSE tried

\* up to `await fetch(...)`
WitnessPOST(r, sid) ==
    /\ Accepts(r)
    /\ nreq < MaxRequests
    /\ nreq' = nreq + 1
    /\ LET failed == PreconditionError(sessions, docArrays["witness"], sid)
       IN  IF failed # 0
           THEN /\ req' = [req EXCEPT ![r] =
                      Request("done", "witness", sid, nreq + 1, NoValue, "", "",
                              ErrorResponse(failed, PreconditionMessage(failed, "Session not found")))]
                /\ UNCHANGED <<sessions, llmCalls>>
           ELSE /\ sessions' = updateSession(sessions, sid, [status |-> "generating"])
                /\ llmCalls' = llmCalls + 1
                /\ req' = [req EXCEPT ![r] =
                      Request("fetch", "witness", sid, nreq + 1, NoValue,
                              sessions[sid].caseName, sessions[sid].witnessName, NoValue)]
    /\ UNCHANGED <<now, apiKey, depositionSessions, docArrays, pin, pout>>

\* from the settled fetch to the response
WitnessResume(r, o) ==
    /\ req[r].pc = "fetch"
    /\ req[r].route = "witness"
    /\ LET sid    == req[r].sid
           result == WitnessResult(o, req[r].caseName, req[r].name,
                                   Documents("witness", sid), req[r].n)
           saved  == setQuestions(sessions, sid, result.questions)
       IN  /\ sessions' = saved
           /\ req' = [req EXCEPT ![r].pc = "done", ![r].llm = o,
                                 ![r].resp = [status       |-> 200,
                                              questions    |-> result.questions,
                                              session      |-> SessionOrNull(saved, sid),
                                              usedFallback |-> result.usedFallback]]
    /\ UNCHANGED <<now, apiKey, depositionSessions, docArrays, nreq, llmCalls, pin, pout>>

(***************************************************************************)
(* POST /api/depositions/[sessionId]/generate-questions                    *)
(***************************************************************************)
\* The try block around the LLM call: the result and the usedFallback flag,
\* or Thrown when the fallback synthesizer itself raises, which the catch
\* clause of the try block does not contain.
DepositionResult(o, caseName, deponentName, documents, n) ==
    LET synthesized == generateFallbackQuestions(caseName, deponentName, documents)
        fallback ==
            IF FallbackThrows(documents) THEN Thrown
            ELSE Ok([gaps           |-> WithIds(synthesized.gaps, n, "g"),
                     contradictions |-> synthesized.contradictions,
                     questions      |-> WithIds(synthesized.questions, n, "q"),
                     analysis       |-> synthesized.analysis,
                     usedFallback   |-> TRUE])
    IN  IF o.k # "content" THEN fallback
        ELSE IF Truthy(o.parsed) /\ Truthy(Get(o.parsed, "questions"))
        THEN LET t == DepositionTransform(o.parsed, n)
             IN  IF t.ok
                 THEN Ok([gaps           |-> t.v.gaps,
                          contradictions |-> t.v.contradictions,
                          questions      |-> t.v.questions,
                          analysis       |-> t.v.analysis,
                          usedFallback   |-> FALSE])
                 ELSE fallback
        ELSE fallback

\* up to `await fetch(...)`
DepositionPOST(r, sid) ==
    /\ Accepts(r)
    /\ nreq < MaxRequests
    /\ nreq' = nreq + 1
    /\ LET failed == PreconditionError(depositionSessions, docArrays["deposition"], sid)
       IN  IF failed # 0
           THEN /\ req' = [req EXCEPT ![r] =
                      Request("done", "deposition", sid, nreq + 1, NoValue, "", "",
                              ErrorResponse(failed, PreconditionMessage(failed, "Deposition session not found")))]
                /\ UNCHANGED <<depositionSessions, llmCalls>>
           ELSE /\ depositionSessions' = updateSession(depositionSessions, sid, [status |-> "analyzing"])
                /\ llmCalls' = llmCalls + 1
                /\ req' = [req EXCEPT ![r] =
                      Request("fetch", "deposition", sid, nreq + 1, NoValue,
                              depositionSessions[sid].caseName, depositionSessions[sid].deponentName, NoValue)]
    /\ UNCHANGED <<now, apiKey, sessions, docArrays, pin, pout>>

\* from the settled fetch to the response
DepositionResume(r, o) ==
    /\ req[r].pc = "fetch"
    /\ req[r].route = "deposition"
    /\ LET sid    == req[r].sid
           result == DepositionResult(o, req[r].caseName, req[r].name,
                                      Documents("deposition", sid), req[r].n)
       IN  IF ~result.ok
           THEN /\ req' = [req EXCEPT ![r].pc = "done", ![r].llm = o,
                                      ![r].resp = ErrorResponse(500, "Failed to generate questions")]
                /\ UNCHANGED depositionSessions
           ELSE LET analysed == setAnalysisResults(depositionSessions, sid, result.v.gaps,
                                                   result.v.contradictions, result.v.analysis)
                    saved    == setQuestions(analysed, sid, result.v.questions)
                IN  /\ depositionSessions' = saved
                    /\ req' = [req EXCEPT ![r].pc = "done", ![r].llm = o,
                                          ![r].resp = [status         |-> 200,
                                                       gaps           |-> result.v.gaps,
                                                       contradictions |-> result.v.contradictions,
                                                       questions      |-> result.v.questions,
                                                       analysis       |-> result.v.analysis,
                                                       session        |-> SessionOrNull(saved, sid),
                                                       usedFallback   |-> result.v.usedFallback]]
    /\ UNCHANGED <<now, apiKey, sessions, docArrays, nreq, llmCalls, pin, pout>>

(***************************************************************************)
(* POST /api/sessions/[sessionId]/generate-questions-stream                *)
(***************************************************************************)
ErrorEvent(error) == [type |-> "error", error |-> error]

\* up to `await fetch(...)` in the stream's start callback, which runs
\* while the ReadableStream is constructed
StreamPOST(r, sid) ==
    /\ Accepts(r)
    /\ nreq < MaxRequests
    /\ nreq' = nreq + 1
    /\ LET failed == PreconditionError(sessions, docArrays["witness"], sid)
       IN  IF failed # 0
           THEN /\ req' = [req EXCEPT ![r] =
                      Request("done", "stream", sid, nreq + 1, NoValue, "", "",
                              ErrorResponse(failed, PreconditionMessage(failed, "Session not found")))]
                /\ UNCHANGED <<sessions, llmCalls>>
           ELSE /\ sessions' = updateSession(sessions, sid, [status |-> "generating"])
                /\ llmCalls' = llmCalls + 1
                /\ req' = [req EXCEPT ![r] =
                      Request("fetch", "stream", sid, nreq + 1, NoValue,
                              sessions[sid].caseName, sessions[sid].witnessName, [status |-> 200, events |-> <<>>, closed |-> FALSE])]
    /\ UNCHANGED <<now, apiKey, depositionSessions, docArrays, pin, pout>>

\* from the settled fetch to controller.close()
StreamResume(r, o) ==
    /\ req[r].pc = "fetch"
    /\ req[r].route = "stream"
    /\ LET sid == req[r].sid
           n   == req[r].n
           t   == IF o.k = "content" /\ o.parsed # SyntaxError
                  THEN StreamTransform(o.parsed, n) ELSE Thrown
           End(store, event) ==
               /\ sessions' = store
               /\ req' = [req EXCEPT ![r].pc = "done", ![r].llm = o,
                                     ![r].resp.events = Append(@, event),
                                     ![r].resp.closed = TRUE]
       IN  CASE o.k = "notOk" ->
                  End(updateSession(sessions, sid, [status |-> "setup"]),
                      ErrorEvent("Failed to generate questions"))
             [] o.k = "noBody" ->
                  End(sessions, ErrorEvent("No response body"))
             [] o.k = "throw" ->
                  End(updateSession(sessions, sid, [status |-> "setup"]),
                      ErrorEvent("Stream error"))
             [] o.k = "content" /\ ~t.ok ->
                  End(updateSession(sessions, sid, [status |-> "setup"]),
                      ErrorEvent("Failed to parse response"))
             [] o.k = "content" /\ t.ok ->
                  LET saved == setQuestions(sessions, sid, t.v)
                  IN  End(saved, [type |-> "done", questions |-> t.v,
                                  session |-> SessionOrNull(saved, sid)])
    /\ UNCHANGED <<now, apiKey, depositionSessions, docArrays, nreq, llmCalls, pin, pout>>

Generate ==
    \/ \E r \in Slots, sid \in RequestableIds : WitnessPOST(r, sid)
    \/ \E r \in Slots, o \in WitnessOutcomes : WitnessResume(r, o)
    \/ \E r \in Slots, sid \in RequestableIds : DepositionPOST(r, sid)
    \/ \E r \in Slots, o \in DepositionOutcomes : DepositionResume(r, o)
    \/ \E r \in Slots, sid \in RequestableIds : StreamPOST(r, sid)
    \/ \E r \in Slots, o \in StreamOutcomes : StreamResume(r, o)


(***************************************************************************)
(* The transformations and the synthesizers on their own: Init draws an    *)
(* argument, the action applies the function to it.                        *)
(***************************************************************************)
\* Bound: documents handed to a synthesizer.
MaxDocs == 2

RichText ==
    Text(<<"Ann Lee", "Bob Ray", "Cy Dow", "Bob Ray", "Eve Fox", "Gus Hay", "Ida Jay">>,
         <<"2020-01-02", "3/4/2021", "May 5, 2021", "2020-01-02", "2021-06-07", "2021-08-09">>,
         <<"$5,000", "$7,250.00", "1,000 dollars", "$9">>,
         <<<<"in", "Boston">>, <<"at", "Boston">>, <<"to", "New York">>, <<"from", "Salem, MA">>>>,
         <<"\"we never shipped the goods\"", "stated that the invoice was paid",
           "'nobody told me about it'", "claimed that the truck broke down">>,
         <<"The shipment left the warehouse late", " Nobody signed the delivery receipt",
           " The invoice was sent twice to the buyer">>)

Doc(name, type, content) ==
    [id |-> uuidv4(0, "d", 1), name |-> name, type |-> type, status |-> "ready",
     content |-> content]

DocPool ==
    { Doc("blank.txt", "other", EmptyText),
      Doc("scan.pdf", "exhibit", Undefined),
      Doc("memo.txt", "exhibit", MemoText),
      Doc("ledger.txt", "case_file", RichText),
      Doc("depo.pdf", "transcript", EmptyText),
      Doc("hearing.txt", "prior_testimony", RichText) }

FallbackInputs ==
    { [f |-> "fallback", documents |-> d, deponentName |-> "Ann Lee"] :
        d \in UNION {[1..k -> DocPool] : k \in 1..MaxDocs} }

CategoryInputs ==
    { Undefined, JNull, JStr(""), JStr("timeline"), JStr("bogus"), JNum(5),
      JArr(<<JStr("timeline")>>) }

\* difficulty (witness) and priority (deposition) of one question object
LevelInputs ==
    { <<Undefined, Undefined>>, <<JStr("hard"), JStr("low")>>,
      <<JStr("HARD"), JStr("urgent")>>, <<JArr(<<JStr("easy")>>), JArr(<<JStr("high")>>)>> }

QuestionTextInputs == { Undefined, JStr("Q"), JNum(7) }

\* obj without the fields whose value is undefined: JSON has no undefined
Defined(o) == [f \in {g \in DOMAIN o : o[g] # Undefined} |-> o[f]]

QuestionObjects ==
    { JObj(Defined([question |-> q, category |-> c, difficulty |-> l[1], priority |-> l[2]])) :
        q \in QuestionTextInputs, c \in CategoryInputs, l \in LevelInputs }

NonObjects == { JNull, JNum(3), JStr("not an object") }

PairElements == { JNull, JStr("not an object"), GoodQ(1), JObj([category |-> JStr("bogus")]) }

QuestionLists ==
    {<<>>}
    \cup { <<e>> : e \in QuestionObjects \cup NonObjects }
    \cup { <<a, b>> : a \in PairElements, b \in PairElements }
    \cup { LongList(n).a : n \in (QUESTION_CAP - 1)..MaxPayloadLen }

DepositionExtras ==
    { JObj([questions |-> JStr("none")]),
      JObj([questions |-> JNum(5)]),
      JObj([questions |-> JObj([first |-> GoodQ(1)])]),
      JObj([gaps |-> JArr(<<GoodGap>>)]),
      JArr(<<GoodQ(1)>>),
      JObj([questions |-> JArr(<<GoodQ(1)>>), gaps |-> JStr("none")]),
      JObj([questions |-> JArr(<<GoodQ(1)>>), gaps |-> JArr(<<JNull>>)]),
      JObj([questions |-> JArr(<<GoodQ(1)>>), contradictions |-> JObj(<<>>)]),
      JObj([questions |-> JArr(<<GoodQ(1)>>),
            analysis |-> JObj([timelineEvents |-> JArr(<<JNull>>)])]),
      JObj([questions |-> JArr(<<GoodQ(1)>>),
            gaps |-> JArr(<<GoodGap, JObj([severity |-> JStr("fatal")]),
                            JObj([severity |-> JArr(<<JStr("significant")>>)]), JNum(1)>>),
            contradictions |-> JArr(<<JObj([source1 |-> JNull, severity |-> JStr("minor"),
                                            source2 |-> JObj([document |-> JStr("memo.txt"),
                                                              page |-> JNum(4)])]),
                                      JObj([severity |-> JStr("grave")])>>),
            analysis |-> JObj([keyThemes |-> JStr("delay"),
                               timelineEvents |-> JArr(<<JObj([date |-> JStr("2020-01-02")])>>)])]) }

ValidateInputs ==
    { [f |-> "validate", route |-> route, parsed |-> JArr(l)] :
        route \in {"witness", "stream"}, l \in QuestionLists }
    \cup { [f |-> "validate", route |-> "deposition", parsed |-> JObj([questions |-> JArr(l)])] :
        l \in QuestionLists }
    \cup { [f |-> "validate", route |-> "deposition", parsed |-> p] : p \in DepositionExtras }

\* The documents of the session the payloads are validated for.
ValidateDocuments == <<Doc("memo.txt", "exhibit", MemoText)>>

\* The documents whose details are extracted.
ExtractInputs ==
    { [f |-> "extract", documents |-> d] : d \in UNION {[1..k -> DocPool] : k \in 1..MaxDocs} }

InitFunctions ==
    /\ now = 0
    /\ apiKey = TRUE
    /\ sessions = <<>>
    /\ depositionSessions = <<>>
    /\ docArrays = [f \in Families |-> <<>>]
    /\ req = [r \in Slots |-> Idle]
    /\ nreq = 0
    /\ llmCalls = 0
    /\ pin \in ValidateInputs \cup FallbackInputs \cup ExtractInputs
    /\ pout = NoValue

\* What a route makes of the parsed completion.
Validate ==
    /\ pin.f = "validate"
    /\ pout = NoValue
    /\ pout' = CASE pin.route = "witness" ->
                      WitnessResult(Content(pin.parsed), "Lee v. Ray", "Ann Lee", ValidateDocuments, 1)
                 [] pin.route = "deposition" ->
                      DepositionResult(Content(pin.parsed), "Lee v. Ray", "Ann Lee", ValidateDocuments, 1)
                 [] pin.route = "stream" ->
                      StreamTransform(pin.parsed, 1)
    /\ UNCHANGED <<now, apiKey, sessions, depositionSessions, docArrays, req, nreq, llmCalls, pin>>

\* Both synthesizers on the same documents.
Synthesize ==
    /\ pin.f = "fallback"
    /\ pout = NoValue
    /\ pout' = [deposition |-> generateFallbackQuestions("Lee v. Ray", pin.deponentName, pin.documents),
                witness    |-> generateFallbackQuestionsW("Lee v. Ray", pin.deponentName, pin.documents)]
    /\ UNCHANGED <<now, apiKey, sessions, depositionSessions, docArrays, req, nreq, llmCalls, pin>>

\* The entity extraction of the deposition fallback on its own.
Extract ==
    /\ pin.f = "extract"
    /\ pout = NoValue
    /\ pout' = extractDocumentDetails(pin.documents)
    /\ UNCHANGED <<now, apiKey, sessions, depositionSessions, docArrays, req, nreq, llmCalls, pin>>

NextFunctions == Validate \/ Synthesize \/ Extract

SpecFunctions == InitFunctions /\ [][NextFunctions]_vars


Next == CreateSession \/ CreateDepositionSession \/ Upload \/ Generate

Spec == Init /\ [][Next]_vars

(***************************************************************************)
(* Properties of the generation requests.                                  *)
(***************************************************************************)
GenerationRoutes == {"witness", "deposition", "stream"}
NonStreaming == {"witness", "deposition"}

FamilyOf(route) == IF route = "deposition" THEN "deposition" ELSE "witness"

\* Request r has ended after its LLM call settled.
Answered(r) == req[r].pc = "done" /\ req[r].llm # NoValue

\* The step in which the handler of slot r goes from its settled LLM call
\* to its response.
Responds(r) == req[r].pc = "fetch" /\ req'[r].pc = "done"

\* The LLM outcomes that give a route no usable payload.
Unusable(o) == o.k \in {"notOk", "throw", "empty"} \/ (o.k = "content" /\ o.parsed = JNull)

\* What the fallback synthesizer of r's route makes of the session's
\* documents as they are now.
SynthesizedFor(r) ==
    LET docs == Documents(FamilyOf(req[r].route), req[r].sid)
    IN  IF req[r].route = "witness"
        THEN WithIds(generateFallbackQuestionsW(req[r].caseName, req[r].name, docs), req[r].n, "q")
        ELSE WithIds(generateFallbackQuestions(req[r].caseName, req[r].name, docs).questions,
                     req[r].n, "q")

\* What parse-and-validate of r's route makes of LLM outcome o.
ValidatedFor(r, o) ==
    IF o.k # "content" THEN Thrown
    ELSE IF req[r].route = "witness"
    THEN IF IsArray(o.parsed) THEN WitnessTransform(o.parsed, req[r].n) ELSE Thrown
    ELSE LET t == DepositionTransform(o.parsed, req[r].n)
         IN  IF t.ok THEN Ok(t.v.questions) ELSE Thrown

\* C1: in the witness and the deposition endpoint, a request whose LLM call
\* ended in a non-success status, a network exception, an empty completion or
\* a completion the parser makes nothing of responds with status 200, the
\* flag usedFallback set, and the questions of the fallback synthesizer.
C1_FailureYieldsFallback ==
    [][\A r \in Slots :
          (Responds(r) /\ req[r].route \in NonStreaming /\ Unusable(req'[r].llm))
          => /\ req'[r].resp.status = 200
             /\ req'[r].resp.usedFallback
             /\ Len(req'[r].resp.questions) > 0
             /\ req'[r].resp.questions = SynthesizedFor(r)]_vars

C1_Witness ==
    \E r \in Slots : /\ Answered(r) /\ req[r].route = "deposition"
                     /\ req[r].llm.k = "notOk"
                     /\ req[r].resp.status = 200 /\ req[r].resp.usedFallback
                     /\ depositionSessions[req[r].sid].questions = req[r].resp.questions

\* C2: a successful response of the witness or the deposition endpoint has
\* usedFallback true exactly when its questions are those of the fallback
\* synthesizer and false exactly when they are those of parse-and-validate;
\* exactly one of the two is the case, and the questions stored on the
\* session are the questions returned.
C2_FlagTellsSource ==
    [][\A r \in Slots :
          (Responds(r) /\ req[r].route \in NonStreaming /\ req'[r].resp.status = 200)
          => LET resp       == req'[r].resp
                 validated  == ValidatedFor(r, req'[r].llm)
                 byFallback == resp.questions = SynthesizedFor(r)
                 byLLM      == validated.ok /\ resp.questions = validated.v
                 store      == IF req[r].route = "witness" THEN sessions' ELSE depositionSessions'
             IN  /\ resp.usedFallback <=> byFallback
                 /\ ~resp.usedFallback <=> byLLM
                 /\ byFallback # byLLM
                 /\ req[r].sid \in DOMAIN store
                 /\ store[req[r].sid].questions = resp.questions
                 /\ resp.session = store[req[r].sid]]_vars

C2_Witness ==
    \E r \in Slots : /\ Answered(r) /\ req[r].route = "witness" /\ req[r].resp.status = 200
                     /\ ~req[r].resp.usedFallback
                     /\ Len(req[r].resp.questions) = QUESTION_CAP
                     /\ sessions[req[r].sid].questions = req[r].resp.questions

\* The step in which slot r takes a new generation request.
Arrives(r) == Free(r) /\ req'[r] # req[r] /\ req'[r].pc # "idle" /\ req'[r].route \in GenerationRoutes

\* C3: a generation request for an unknown session is answered 404, for a
\* session without documents 400, without an API key 500; in each case no
\* LLM call is made and no session changes.
C3_PreconditionsRejectFirst ==
    [][\A r \in Slots :
          Arrives(r)
          => LET family  == FamilyOf(req'[r].route)
                 store   == Store(family)
                 sid     == req'[r].sid
                 unknown == sid \notin DOMAIN store
                 noDocs  == ~unknown /\ Len(Documents(family, sid)) = 0
                 noKey   == ~apiKey
             IN  (unknown \/ noDocs \/ noKey)
                 => /\ req'[r].pc = "done"
                    /\ req'[r].resp.status = IF unknown THEN 404 ELSE IF noDocs THEN 400 ELSE 500
                    /\ "error" \in DOMAIN req'[r].resp
                    /\ llmCalls' = llmCalls
                    /\ sessions' = sessions
                    /\ depositionSessions' = depositionSessions
                    /\ docArrays' = docArrays]_vars

C3_Witness ==
    \E r \in Slots :
        /\ req[r].pc = "done" /\ req[r].route = "deposition" /\ req[r].llm = NoValue
        /\ req[r].resp.status = 500
        /\ req[r].sid \in DOMAIN depositionSessions
        /\ Len(Documents("deposition", req[r].sid)) > 0
        /\ depositionSessions[req[r].sid].status = "setup"
        /\ llmCalls = 0

\* The question set request r delivered, or <<>> if it delivered none.
Delivered(r) ==
    IF req[r].route \in NonStreaming
    THEN IF req[r].resp.status = 200 THEN <<req[r].resp.questions>> ELSE <<>>
    ELSE LET events == req[r].resp.events
         IN  IF Len(events) > 0 /\ events[Len(events)].type = "done"
             THEN <<events[Len(events)].questions>> ELSE <<>>

\* C4: every question set a generation request delivers has between 1 and
\* 20 questions, and so has every session whose status is "ready".
C4_QuestionCountInRange ==
    /\ \A r \in Slots :
          (Answered(r) /\ req[r].route \in GenerationRoutes)
          => \A i \in DOMAIN Delivered(r) : Len(Delivered(r)[i]) \in 1..QUESTION_CAP
    /\ \A family \in Families : \A sid \in DOMAIN Store(family) :
          Store(family)[sid].status = "ready"
          => Len(Store(family)[sid].questions) \in 1..QUESTION_CAP

\* C5: a generation request that passed the precondition checks and has
\* ended has delivered a question set.
C5_AlwaysDeliversQuestions ==
    \A r \in Slots :
        (Answered(r) /\ req[r].route \in GenerationRoutes) => Len(Delivered(r)) = 1

\* The result fields of a deposition session.
ResultOf(session) ==
    <<session.gaps, session.contradictions, session.analysis, session.questions>>

\* The requests whose identifiers the gaps and the questions of a session
\* carry.
RequestsIn(session) ==
    {session.gaps[i].id.r : i \in DOMAIN session.gaps}
    \cup {session.questions[i].id.r : i \in DOMAIN session.questions}

\* A generation request responds and installs its whole result.
Installs(sid) ==
    \E r \in Slots :
        /\ Responds(r) /\ req[r].route = "deposition" /\ req[r].sid = sid
        /\ req'[r].resp.status = 200
        /\ ResultOf(depositionSessions'[sid]) = ResultOf(req'[r].resp)
        /\ depositionSessions'[sid].status = "ready"
        /\ RequestsIn(depositionSessions'[sid]) \subseteq {req[r].n}

\* A generation request arrives and marks the session; the result stays.
Marks(sid) ==
    /\ ResultOf(depositionSessions'[sid]) = ResultOf(depositionSessions[sid])
    /\ depositionSessions'[sid].status = "analyzing"
    /\ \E r \in Slots : /\ Arrives(r) /\ req'[r].route = "deposition"
                        /\ req'[r].sid = sid /\ req'[r].pc = "fetch"

InstallsWhole ==
    \A sid \in DOMAIN depositionSessions :
        (sid \in DOMAIN depositionSessions'
         /\ <<ResultOf(depositionSessions'[sid]), depositionSessions'[sid].status>>
            # <<ResultOf(depositionSessions[sid]), depositionSessions[sid].status>>)
        => Installs(sid) \/ Marks(sid)

Applied(f) == pin # NoValue /\ pout # NoValue /\ pin.f = f

Padded(questions, documents) ==
    \E i \in DOMAIN questions : \E j \in DOMAIN documents :
        questions[i] = PaddingQuestion(documents[j])

\* C7: for one or more documents, whatever they contain, both fallback
\* synthesizers return at least 10 questions; a result of the deposition
\* synthesizer that holds a padding question holds exactly 10 questions.
C7_FallbackFloor ==
    Applied("fallback")
    => /\ Len(pout.witness) >= FALLBACK_FLOOR
       /\ Len(pout.deposition.questions) >= FALLBACK_FLOOR
       /\ Padded(pout.deposition.questions, pin.documents)
          => Len(pout.deposition.questions) = FALLBACK_FLOOR

\* One document with nothing to extract: the floor is reached by padding.
C7_Witness ==
    /\ Applied("fallback")
    /\ Len(pin.documents) = 1
    /\ pin.documents[1].content = EmptyText
    /\ Padded(pout.deposition.questions, pin.documents)
    /\ Len(pout.deposition.questions) = FALLBACK_FLOOR

\* The question list of the payload drawn, or <<>> when it holds none.
PayloadQuestions ==
    LET q == IF pin.route = "deposition" THEN Get(pin.parsed, "questions") ELSE pin.parsed
    IN  IF IsArray(q) THEN q.a ELSE <<>>

\* The route starts to validate the payload drawn.
EntersValidation ==
    IF pin.route = "deposition"
    THEN pin.parsed.t = "obj" /\ Truthy(Get(pin.parsed, "questions"))
    ELSE IsArray(pin.parsed) /\ Len(pin.parsed.a) > 0

\* The validated questions, or <<>> when the route gave up on the payload.
ValidatedQuestions ==
    CASE pin.route = "witness"    -> IF pout.usedFallback THEN <<>> ELSE <<pout.questions>>
      [] pin.route = "deposition" -> IF pout.ok /\ ~pout.v.usedFallback
                                     THEN <<pout.v.questions>> ELSE <<>>
      [] pin.route = "stream"     -> IF pout.ok THEN <<pout.v>> ELSE <<>>

\* C8: whatever payload a route starts to validate, null, number and string
\* elements and non-array gaps, contradictions and questions included, the
\* validation yields typed records and the payload is not replaced by the
\* fallback result.
C8_ValidationTotal ==
    (Applied("validate") /\ pin.route \in NonStreaming /\ EntersValidation)
    => Len(ValidatedQuestions) = 1

\* A value of the set when v is one, else the default.
AsGiven(valid, v, default) == IF v.t = "str" /\ v.s \in valid THEN v.s ELSE default

\* The same, asked of String(v || default) in the non-streaming routes.
AsString(valid, v, default) ==
    IF pin.route = "stream" THEN AsGiven(valid, v, default)
    ELSE AsGiven(valid, JStr(Str(Or(v, JStr(default)))), default)

\* One of the two rules above.
Rule(rule, valid, v, default) ==
    IF rule = "string" THEN AsString(valid, v, default) ELSE AsGiven(valid, v, default)

\* Every enum field stored equals Rule(rule, set, value in the payload, default).
EnumsFollow(rule) ==
    (Applied("validate") /\ Len(ValidatedQuestions) = 1)
    => /\ \A i \in DOMAIN ValidatedQuestions[1] :
             LET q   == PayloadQuestions[i]
                 out == ValidatedQuestions[1][i]
             IN  IF pin.route = "deposition"
                 THEN /\ out.category = Rule(rule, DepositionCategories, Get(q, "category"), "general")
                      /\ out.priority = Rule(rule, Priorities, Get(q, "priority"), "medium")
                      /\ out.category \in DepositionCategories
                      /\ out.priority \in Priorities
                 ELSE /\ out.category = Rule(rule, WitnessCategories, Get(q, "category"), "general")
                      /\ out.difficulty = Rule(rule, Difficulties, Get(q, "difficulty"), "medium")
                      /\ out.category \in WitnessCategories
                      /\ out.difficulty \in Difficulties
       /\ pin.route = "deposition"
          => /\ \A i \in DOMAIN pout.v.gaps :
                   pout.v.gaps[i].severity =
                      Rule(rule, Severities, Get(Get(pin.parsed, "gaps").a[i], "severity"), "moderate")
             /\ \A i \in DOMAIN pout.v.contradictions :
                   pout.v.contradictions[i].severity =
                      Rule(rule, Severities, Get(Get(pin.parsed, "contradictions").a[i], "severity"),
                           "moderate")

HoldsQuestionObjects ==
    /\ IsArray(IF pin.route = "deposition" THEN Get(pin.parsed, "questions") ELSE pin.parsed)
    /\ \A i \in DOMAIN PayloadQuestions : PayloadQuestions[i].t = "obj"

\* C10: a payload of n question objects that a route validates gives
\* min(n, 20) questions, the i-th made from the i-th object of the payload;
\* a payload that holds nothing but its n question objects is validated.
C10_FirstTwentyInOrder ==
    (Applied("validate") /\ HoldsQuestionObjects)
    => /\ (EntersValidation /\ (pin.route = "deposition" => DOMAIN pin.parsed.o = {"questions"}))
          => Len(ValidatedQuestions) = 1
       /\ Len(ValidatedQuestions) = 1
          => /\ Len(ValidatedQuestions[1]) = Min(Len(PayloadQuestions), QUESTION_CAP)
             /\ \A i \in DOMAIN ValidatedQuestions[1] :
                   /\ ValidatedQuestions[1][i].id.i = i
                   /\ Truthy(Get(PayloadQuestions[i], "question"))
                      => Str(ValidatedQuestions[1][i].question)
                         = Str(Get(PayloadQuestions[i], "question"))

C10_Witness ==
    /\ Applied("validate") /\ pin.route = "deposition"
    /\ Len(PayloadQuestions) = QUESTION_CAP + 1
    /\ Len(ValidatedQuestions) = 1
    /\ Len(ValidatedQuestions[1]) = QUESTION_CAP
    /\ ValidatedQuestions[1][QUESTION_CAP].question # ValidatedQuestions[1][1].question

(***************************************************************************)
(* The response parsers.  A completion text is a sequence of tokens: the   *)
(* punctuation of JSON, string literals, numbers, null, white space, the   *)
(* byte order mark, the markdown fence, the word json and other prose.     *)
(* String literals hold no bracket, brace or quote.                        *)
(***************************************************************************)
P(c) == [c |-> c]
SLit(s) == [c |-> "str", s |-> s]
NLit(n) == [c |-> "num", n |-> n]

\* The characters JSON.parse skips between tokens.
JsonSpace(t) == t.c \in {" ", "nl"}
\* The characters \s matches and trim() removes.
RegexSpace(t) == t.c \in {" ", "nl", "BOM"}

ParseFailed == [ok |-> FALSE, v |-> JNull, rest |-> <<>>]
Parsed(v, rest) == [ok |-> TRUE, v |-> v, rest |-> rest]

\* { k1: v1, k2: v2, ... } from its members in text order; a repeated key
\* keeps its last value.
ObjectOf(members) ==
    JObj([k \in {members[i][1] : i \in DOMAIN members} |->
            LET last == CHOOSE i \in DOMAIN members :
                            /\ members[i][1] = k
                            /\ \A j \in DOMAIN members : members[j][1] = k => j <= i
            IN  members[last][2]])

RECURSIVE ParseValue(_)
RECURSIVE ParseElements(_, _)
RECURSIVE ParseMembers(_, _)
\* One JSON value at the head of ts (white space already removed).
ParseValue(ts) ==
    IF Len(ts) = 0 THEN ParseFailed
    ELSE LET h == Head(ts)
         IN  CASE h.c = "str"  -> Parsed(JStr(h.s), Tail(ts))
               [] h.c = "num"  -> Parsed(JNum(h.n), Tail(ts))
               [] h.c = "null" -> Parsed(JNull, Tail(ts))
               [] h.c = "["    -> IF Len(ts) >= 2 /\ ts[2].c = "]"
                                  THEN Parsed(JArr(<<>>), SubSeq(ts, 3, Len(ts)))
                                  ELSE ParseElements(Tail(ts), <<>>)
               [] h.c = "{"    -> IF Len(ts) >= 2 /\ ts[2].c = "}"
                                  THEN Parsed(JObj(<<>>), SubSeq(ts, 3, Len(ts)))
                                  ELSE ParseMembers(Tail(ts), <<>>)
               [] OTHER        -> ParseFailed

RECURSIVE ParseElements_DropsLast(_, _)
ParseElements_DropsLast(ts, acc) ==
    LET r == ParseValue(ts)
    IN  IF ~r.ok \/ Len(r.rest) = 0 THEN ParseFailed
        ELSE IF Head(r.rest).c = "]" THEN Parsed(JArr(acc), Tail(r.rest))
        ELSE IF Head(r.rest).c = "," THEN ParseElements_DropsLast(Tail(r.rest), Append(acc, r.v))
        ELSE ParseFailed

\* value ( "," value )* "]"
ParseElements(ts, acc) ==
    LET r == ParseValue(ts)
    IN  IF ~r.ok \/ Len(r.rest) = 0 THEN ParseFailed
        ELSE IF Head(r.rest).c = "]" THEN Parsed(JArr(Append(acc, r.v)), Tail(r.rest))
        ELSE IF Head(r.rest).c = "," THEN ParseElements(Tail(r.rest), Append(acc, r.v))
        ELSE ParseFailed

\* string ":" value ( "," string ":" value )* "}"
ParseMembers(ts, acc) ==
    IF Len(ts) < 3 \/ ts[1].c # "str" \/ ts[2].c # ":" THEN ParseFailed
    ELSE LET r == ParseValue(SubSeq(ts, 3, Len(ts)))
         IN  IF ~r.ok \/ Len(r.rest) = 0 THEN ParseFailed
             ELSE IF Head(r.rest).c = "}"
             THEN Parsed(ObjectOf(Append(acc, <<ts[1].s, r.v>>)), Tail(r.rest))
             ELSE IF Head(r.rest).c = ","
             THEN ParseMembers(Tail(r.rest), Append(acc, <<ts[1].s, r.v>>))
             ELSE ParseFailed

\* JSON.parse(text): the value, or Thrown for a SyntaxError.
JSONParse(text) ==
    LET r == ParseValue(SelectSeq(text, LAMBDA t : ~JsonSpace(t)))
    IN  IF r.ok /\ Len(r.rest) = 0 THEN Ok(r.v) ELSE Thrown

\* text.trim()
RECURSIVE TrimStart(_)
TrimStart(text) ==
    IF Len(text) > 0 /\ RegexSpace(Head(text)) THEN TrimStart(Tail(text)) ELSE text

RECURSIVE TrimEnd(_)
TrimEnd(text) ==
    IF Len(text) > 0 /\ RegexSpace(text[Len(text)])
    THEN TrimEnd(SubSeq(text, 1, Len(text) - 1)) ELSE text

TrimText(text) == TrimEnd(TrimStart(text))

\* Removes a markdown fence at the start, with the word json and the
\* white space after it.
StripOpeningFence(text) ==
    IF Len(text) > 0 /\ Head(text).c = "fence"
    THEN LET afterFence == Tail(text)
             afterWord  == IF Len(afterFence) > 0 /\ Head(afterFence).c = "json"
                           THEN Tail(afterFence) ELSE afterFence
         IN  TrimStart(afterWord)
    ELSE text

\* Removes a markdown fence at the end, with the white space after it and
\* one newline before it.
StripClosingFence(text) ==
    LET body == TrimEnd(text)
    IN  IF Len(body) > 0 /\ body[Len(body)].c = "fence"
        THEN LET before == SubSeq(body, 1, Len(body) - 1)
             IN  IF Len(before) > 0 /\ before[Len(before)].c = "nl"
                 THEN SubSeq(before, 1, Len(before) - 1) ELSE before
        ELSE text

\* Strategy 2: the text without surrounding white space and fences.
Cleaned(content) ==
    TrimText(StripClosingFence(StripOpeningFence(LET t == TrimText(content)
                                                  IN  IF Len(t) > 0 /\ Head(t).c = "BOM"
                                                      THEN Tail(t) ELSE t)))

\* text.indexOf(c) and text.lastIndexOf(c), counted from 1; 0 when absent.
IndexOf(text, c) ==
    LET at == {i \in DOMAIN text : text[i].c = c}
    IN  IF at = {} THEN 0 ELSE CHOOSE i \in at : \A j \in at : i <= j

LastIndexOf(text, c) ==
    LET at == {i \in DOMAIN text : text[i].c = c}
    IN  IF at = {} THEN 0 ELSE CHOOSE i \in at : \A j \in at : j <= i

NoMatch == [found |-> FALSE, text |-> <<>>]
Match(text) == [found |-> TRUE, text |-> text]

\* The ends of the matches of  [ space* { anything } space* ]  that start
\* at position i.
ArrayMatchEnds(text, i) ==
    {e \in (i + 1)..Len(text) :
        /\ text[i].c = "[" /\ text[e].c = "]"
        /\ \E p \in (i + 1)..(e - 1), q \in (i + 1)..(e - 1) :
              /\ p < q
              /\ text[p].c = "{" /\ text[q].c = "}"
              /\ \A k \in (i + 1)..(p - 1) : RegexSpace(text[k])
              /\ \A k \in (q + 1)..(e - 1) : RegexSpace(text[k])}

\* content.match of the greedy array pattern: the leftmost start, the
\* longest match from there.
ArrayMatch(text) ==
    LET starts == {i \in DOMAIN text : ArrayMatchEnds(text, i) # {}}
    IN  IF starts = {} THEN NoMatch
        ELSE LET i == CHOOSE x \in starts : \A y \in starts : x <= y
                 e == CHOOSE x \in ArrayMatchEnds(text, i) :
                          \A y \in ArrayMatchEnds(text, i) : y <= x
             IN  Match(SubSeq(text, i, e))

\* content.match of the greedy object pattern: first { to last }.
ObjectMatch(text) ==
    IF IndexOf(text, "{") # 0 /\ LastIndexOf(text, "}") > IndexOf(text, "{")
    THEN Match(SubSeq(text, IndexOf(text, "{"), LastIndexOf(text, "}")))
    ELSE NoMatch

\* Strategy 4: from the first opening to the last closing character.
Between(text, open, close) ==
    IF /\ IndexOf(text, open) # 0 /\ LastIndexOf(text, close) # 0
       /\ LastIndexOf(text, close) > IndexOf(text, open)
    THEN Match(SubSeq(text, IndexOf(text, open), LastIndexOf(text, close)))
    ELSE NoMatch

\* Strategy 5: content.substring(firstBracket, lastBracket + 1) when both
\* exist, in whatever order; substring swaps its arguments when the first
\* is the larger.
BracketSpan(text) ==
    LET first == IndexOf(text, "[")
        last  == LastIndexOf(text, "]")
    IN  IF first = 0 \/ last = 0 THEN text
        ELSE IF last >= first THEN SubSeq(text, first, last)
        ELSE SubSeq(text, last + 1, first - 1)

RECURSIVE FixTrailingCommas(_)
\* Removes every comma that only white space separates from } or ].
FixTrailingCommas(text) ==
    IF Len(text) = 0 THEN text
    ELSE LET after == TrimStart(Tail(text))
         IN  IF Head(text).c = "," /\ Len(after) > 0 /\ Head(after).c \in {"}", "]"}
             THEN FixTrailingCommas(after)
             ELSE <<Head(text)>> \o FixTrailingCommas(Tail(text))

RECURSIVE FlatQuestionObjects(_, _)
\* Strategy 6: the texts { ... "question" ... } without inner braces, from
\* position i on, in text order.
FlatQuestionObjects(text, i) ==
    IF i > Len(text) THEN <<>>
    ELSE LET braces == {j \in (i + 1)..Len(text) : text[j].c \in {"{", "}"}}
             j      == IF braces = {} THEN 0
                       ELSE CHOOSE x \in braces : \A y \in braces : x <= y
         IN  IF /\ text[i].c = "{" /\ j # 0 /\ text[j].c = "}"
                /\ \E k \in (i + 1)..(j - 1) : text[k] = SLit("question")
             THEN <<SubSeq(text, i, j)>> \o FlatQuestionObjects(text, j + 1)
             ELSE FlatQuestionObjects(text, i + 1)

\* The objects of strategy 6 that parse and have a string as question.
ExtractedQuestions(content) ==
    LET texts == FlatQuestionObjects(content, 1)
        good  == SelectSeq([i \in DOMAIN texts |-> JSONParse(texts[i])],
                           LAMBDA r : r.ok /\ Truthy(r.v) /\ Get(r.v, "question").t = "str")
    IN  [i \in DOMAIN good |-> good[i].v]

\* What one strategy yields: a value of the kind the endpoint expects, or
\* nothing.
Nothing == [ok |-> FALSE, v |-> JNull]
ArrayFrom(r) == IF r.ok /\ IsArray(r.v) THEN Ok(r.v) ELSE Nothing
ObjectFrom_AnyKind(r) == IF r.ok THEN Ok(r.v) ELSE Nothing

ObjectFrom(r) == IF r.ok /\ r.v.t \in {"obj", "arr"} THEN Ok(r.v) ELSE Nothing
ParseMatch(m) == IF m.found THEN JSONParse(m.text) ELSE Thrown

\* The strategies of the witness endpoint's parser, in the order of the code.
ArrayStrategies(content) ==
    << ArrayFrom(JSONParse(content)),
       ArrayFrom(JSONParse(Cleaned(content))),
       ArrayFrom(ParseMatch(ArrayMatch(content))),
       ArrayFrom(ParseMatch(Between(content, "[", "]"))),
       ArrayFrom(JSONParse(FixTrailingCommas(BracketSpan(content)))),
       IF Len(ExtractedQuestions(content)) > 0
       THEN Ok(JArr(ExtractedQuestions(content))) ELSE Nothing >>

\* The strategies of the deposition endpoint's parser.
ObjectStrategies(content) ==
    << ObjectFrom(JSONParse(content)),
       ObjectFrom(JSONParse(Cleaned(content))),
       ObjectFrom(ParseMatch(ObjectMatch(content))),
       ObjectFrom(ParseMatch(Between(content, "{", "}"))) >>

RECURSIVE FirstFrom(_, _)
RECURSIVE FirstFrom_Reversed(_, _)
FirstFrom_Reversed(strategies, k) ==
    IF k > Len(strategies) THEN [by |-> 0, v |-> JNull]
    ELSE LET later == FirstFrom_Reversed(strategies, k + 1)
         IN  IF later.by # 0 THEN later
             ELSE IF strategies[k].ok THEN [by |-> k, v |-> strategies[k].v]
             ELSE later

\* Each strategy returns from the function when it yields; the next runs
\* only when it did not.  by = 0 and null when none yields.
FirstFrom(strategies, k) ==
    IF k > Len(strategies) THEN [by |-> 0, v |-> JNull]
    ELSE IF strategies[k].ok THEN [by |-> k, v |-> strategies[k].v]
    ELSE FirstFrom(strategies, k + 1)

parseJSONResponseW(content) == FirstFrom(ArrayStrategies(content), 1)
parseJSONResponse(content) == FirstFrom(ObjectStrategies(content), 1)

(***************************************************************************)
(* The parsers on their own: Init draws an endpoint and a completion text, *)
(* the action parses it and answers as the endpoint's route does.          *)
(***************************************************************************)
\* Bound: question objects in a completion text.
MaxTextQuestions == 2

QuestionText(i) == <<P("{"), SLit("question"), P(":"), SLit("Q" \o ToString(i)), P("}")>>

RECURSIVE QuestionTexts(_, _)
\* i-th to n-th question object, separated by commas
QuestionTexts(i, n) ==
    IF i > n THEN <<>>
    ELSE IF i = n THEN QuestionText(i)
    ELSE QuestionText(i) \o <<P(","), P(" ")>> \o QuestionTexts(i + 1, n)

ArrayText(n) == <<P("[")>> \o QuestionTexts(1, n) \o <<P("]")>>
WrappedText(n) == <<P("{"), SLit("questions"), P(":")>> \o ArrayText(n) \o <<P("}")>>

\* The JSON values ArrayText(n) and WrappedText(n) are the texts of.
ArrayValue(n) == JArr([i \in 1..n |-> JObj([question |-> JStr("Q" \o ToString(i))])])
WrappedValue(n) == JObj([questions |-> ArrayValue(n)])

\* Valid JSON texts with the values they denote.
ValidTexts ==
    { [text |-> ArrayText(n), value |-> ArrayValue(n)] : n \in 0..MaxTextQuestions }
    \cup { [text |-> WrappedText(n), value |-> WrappedValue(n)] : n \in 0..MaxTextQuestions }
    \cup { [text |-> <<P("{"), P("}")>>, value |-> JObj(<<>>)],
           [text |-> <<P("["), NLit(1), P(","), P("nl"), P("null"), P("]")>>,
            value |-> JArr(<<JNum(1), JNull>>)],
           [text |-> QuestionText(1), value |-> JObj([question |-> JStr("Q1")])],
           [text |-> <<P("{"), SLit("question"), P(":"), NLit(1), P("}")>>,
            value |-> JObj([question |-> JNum(1)])],
           [text |-> <<SLit("Q1")>>, value |-> JStr("Q1")],
           [text |-> <<NLit(1)>>, value |-> JNum(1)],
           [text |-> <<P("null")>>, value |-> JNull] }

\* Texts that are not JSON.
BrokenTexts ==
    { <<>>,
      <<P("x")>>,
      <<P("["), P("{"), SLit("question"), P(":"), SLit("Q1"), P("}"), P(","), P(" "), P("]")>>,
      <<P("{"), SLit("questions"), P(":"), P("["), P("{"), SLit("question"), P(":"),
        SLit("Q1"), P(","), P("}"), P("]"), P(","), P("}")>>,
      <<P("["), P("{"), SLit("question"), P(":"), SLit("Q1"), P("}")>>,
      QuestionText(1) \o <<P("nl")>> \o QuestionText(2),
      QuestionText(2) \o <<P(" ")>> \o ArrayText(1),
      <<P("{"), SLit("question"), P(":"), NLit(1), P("}"), P("{"), SLit("question"), P(":"),
        P("x"), P("}")>> \o QuestionText(2),
      <<P("]"), P("x"), P("[")>>,
      <<P("}"), P("{")>> }

Prefixes ==
    { <<>>, <<P(" ")>>, <<P("BOM")>>, <<P("x"), P(" ")>>,
      <<P("fence"), P("json"), P("nl")>>, <<P("nl"), P("fence"), P(" "), P("nl")>>,
      <<P("x"), P("["), NLit(1), P("]"), P("x")>>,
      <<P("x"), P("{"), P("}"), P("x")>> }

Suffixes ==
    { <<>>, <<P("nl")>>, <<P(" "), P("x")>>, <<P("nl"), P("fence"), P("nl")>>,
      <<P("nl"), P("nl"), P("fence")>>,
      <<P("x"), P("["), P("]")>>, <<P("x"), P("{"), P("}")>> }

ParseInputs ==
    { [f |-> "parse", endpoint |-> e, content |-> pre \o t.text \o post,
       json |-> IF pre = <<>> /\ post = <<>> THEN t.value ELSE NoValue] :
        e \in NonStreaming, pre \in Prefixes, post \in Suffixes, t \in ValidTexts }
    \cup { [f |-> "parse", endpoint |-> e, content |-> pre \o t \o post, json |-> NoValue] :
        e \in NonStreaming, pre \in Prefixes, post \in Suffixes, t \in BrokenTexts }

InitParser ==
    /\ now = 0
    /\ apiKey = TRUE
    /\ sessions = <<>>
    /\ depositionSessions = <<>>
    /\ docArrays = [f \in Families |-> <<>>]
    /\ req = [r \in Slots |-> Idle]
    /\ nreq = 0
    /\ llmCalls = 0
    /\ pin \in ParseInputs
    /\ pout = NoValue

\* What a route makes of LLM outcome o on the documents of ValidateDocuments.
RouteResult(endpoint, o) ==
    IF endpoint = "witness"
    THEN WitnessResult(o, "Lee v. Ray", "Ann Lee", ValidateDocuments, 1)
    ELSE DepositionResult(o, "Lee v. Ray", "Ann Lee", ValidateDocuments, 1)

\* const parsed = parseJSONResponse(content), and the route's answer to it
ParseResponse ==
    /\ pin.f = "parse"
    /\ pout = NoValue
    /\ LET parsed == IF pin.endpoint = "witness" THEN parseJSONResponseW(pin.content)
                     ELSE parseJSONResponse(pin.content)
       IN  pout' = [by |-> parsed.by, parsed |-> parsed.v,
                    result |-> RouteResult(pin.endpoint, Content(parsed.v))]
    /\ UNCHANGED <<now, apiKey, sessions, depositionSessions, docArrays, req, nreq, llmCalls, pin>>

NextParser == ParseResponse

SpecParser == InitParser /\ [][NextParser]_vars

\* The route's answer carries the fallback result.
AnsweredByFallback(endpoint, result) ==
    IF endpoint = "witness" THEN result.usedFallback
    ELSE result.ok /\ result.v.usedFallback

\* The test each parser applies to a parsed value: Array.isArray on the
\* witness endpoint, typeof 'object' and not null on the deposition
\* endpoint, which an array passes as well.
OfExpectedKind(endpoint, v) ==
    IF endpoint = "witness" THEN v.t = "arr" ELSE v.t \in {"obj", "arr"}

\* C11: for every completion text the parser returns either a value of the
\* kind its endpoint expects or null, and on null the route answers with
\* the fallback result, the same answer it gives to a failed LLM call.
C11_ParserTotal ==
    Applied("parse")
    => /\ \/ pout.by = 0 /\ pout.parsed = JNull
          \/ pout.by > 0 /\ OfExpectedKind(pin.endpoint, pout.parsed)
       /\ pout.parsed = JNull
          => /\ AnsweredByFallback(pin.endpoint, pout.result)
             /\ pout.result = RouteResult(pin.endpoint, Failure("notOk"))
             /\ pout.result = RouteResult(pin.endpoint, Failure("throw"))

\* Prose with brackets and braces that no strategy makes a value of.
C11_Witness ==
    /\ Applied("parse") /\ pin.endpoint = "deposition"
    /\ Len(pin.content) > 0
    /\ IndexOf(pin.content, "{") # 0
    /\ pout.by = 0 /\ pout.parsed = JNull
    /\ AnsweredByFallback(pin.endpoint, pout.result)

\* The strategies of the endpoint drawn.
StrategiesDrawn ==
    IF pin.endpoint = "witness" THEN ArrayStrategies(pin.content)
    ELSE ObjectStrategies(pin.content)

\* C17: the parser returns what the lowest-numbered strategy that yields a
\* value of the expected kind yields, and null when none does; the witness
\* parser has six strategies, the deposition parser four.
C17_LowestStrategyWins ==
    Applied("parse")
    => /\ Len(StrategiesDrawn) = IF pin.endpoint = "witness" THEN 6 ELSE 4
       /\ pout.by \in 0..Len(StrategiesDrawn)
       /\ pout.by = 0 => /\ pout.parsed = JNull
                         /\ \A k \in DOMAIN StrategiesDrawn : ~StrategiesDrawn[k].ok
       /\ pout.by > 0 => /\ StrategiesDrawn[pout.by].ok
                         /\ pout.parsed = StrategiesDrawn[pout.by].v
                         /\ \A k \in 1..(pout.by - 1) : ~StrategiesDrawn[k].ok

\* Strategy 3 wins although strategy 6 yields another value.
C17_Witness ==
    /\ Applied("parse") /\ pin.endpoint = "witness"
    /\ pout.by = 3
    /\ StrategiesDrawn[6].ok
    /\ StrategiesDrawn[6].v # pout.parsed

MaxSections == 3
MaxSectionQuestions == 1
MaxIdList == 2
MaxOutlineOps == 4

OutlineOf(store, sessionId) == store[sessionId].outline

HasOutline(store, sessionId) ==
    sessionId \in DOMAIN store /\ store[sessionId].outline # JNull

\* session.outline = { id: uuidv4(), title, sections: [], createdAt: new Date(),
\*                     updatedAt: new Date() }
createOutline(store, sessionId, title, id) ==
    IF sessionId \notin DOMAIN store THEN store
    ELSE [store EXCEPT ![sessionId].outline =
            [id |-> id, title |-> title, sections |-> <<>>,
             createdAt |-> now, updatedAt |-> now]]

\* sections.push({ ...section, id: uuidv4() })
addOutlineSection(store, sessionId, section, id) ==
    IF ~HasOutline(store, sessionId) THEN store
    ELSE [store EXCEPT ![sessionId].outline.sections =
            Append(@, [id |-> id] @@ section),
                       ![sessionId].outline.updatedAt = now]

\* sections.findIndex(s => s.id === sectionId), 0 for -1
FindIndex(sections, sectionId) ==
    IF \E i \in DOMAIN sections : sections[i].id = sectionId
    THEN CHOOSE i \in DOMAIN sections :
            /\ sections[i].id = sectionId
            /\ \A j \in 1..(i - 1) : sections[j].id # sectionId
    ELSE 0

\* sections[sectionIndex] = { ...sections[sectionIndex], ...updates }
updateOutlineSection(store, sessionId, sectionId, updates) ==
    IF ~HasOutline(store, sessionId) THEN store
    ELSE LET sections == OutlineOf(store, sessionId).sections
             i == FindIndex(sections, sectionId)
         IN  IF i = 0 THEN store
             ELSE [store EXCEPT ![sessionId].outline.sections[i] = updates @@ @,
                                ![sessionId].outline.updatedAt = now]

RECURSIVE Reordered(_, _, _)
\* for (i ...) { section = sections.find(id === sectionIds[i]);
\*               if (section) reorderedSections.push({ ...section, order: i }) }
\* from the i-th listed id on; i counts from 1 here, so order is i - 1.
Reordered(sections, sectionIds, i) ==
    IF i > Len(sectionIds) THEN <<>>
    ELSE LET found == FindIndex(sections, sectionIds[i])
             rest  == Reordered(sections, sectionIds, i + 1)
         IN  IF found = 0 THEN rest
             ELSE <<[sections[found] EXCEPT !.order = i - 1]>> \o rest

reorderOutlineSections(store, sessionId, sectionIds) ==
    IF ~HasOutline(store, sessionId) THEN store
    ELSE [store EXCEPT ![sessionId].outline.sections = Reordered(@, sectionIds, 1),
                       ![sessionId].outline.updatedAt = now]

\* sections[sectionIndex].questions.push(question)
addQuestionToSection(store, sessionId, sectionId, question) ==
    IF ~HasOutline(store, sessionId) THEN store
    ELSE LET i == FindIndex(OutlineOf(store, sessionId).sections, sectionId)
         IN  IF i = 0 THEN store
             ELSE [store EXCEPT ![sessionId].outline.sections[i].questions =
                        Append(@, question),
                                ![sessionId].outline.updatedAt = now]

\* questions.filter(q => q.id !== questionId)
removeQuestionFromSection(store, sessionId, sectionId, questionId) ==
    IF ~HasOutline(store, sessionId) THEN store
    ELSE LET i == FindIndex(OutlineOf(store, sessionId).sections, sectionId)
         IN  IF i = 0 THEN store
             ELSE [store EXCEPT ![sessionId].outline.sections[i].questions =
                        SelectSeq(@, LAMBDA q : q.id # questionId),
                                ![sessionId].outline.updatedAt = now]

(***************************************************************************)
(* POST and DELETE /api/depositions/[sessionId]/outline.                   *)
(***************************************************************************)
topicOrder ==
    <<"Foundation", "Preparation", "Timeline of Events", "Document Authentication",
      "Communications", "Document Discovery", "Prior Statements", "Bias and Interest",
      "Credibility", "Closing">>

\* The topics outside topicOrder that the model uses, as localeCompare
\* orders them.
OtherTopics == <<"General", "Shipment">>

IndexIn(list, x) ==
    IF \E i \in DOMAIN list : list[i] = x
    THEN CHOOSE i \in DOMAIN list : list[i] = x
    ELSE 0

\* The place of a topic under the comparison of sortedTopics.
TopicRank(topic) ==
    IF IndexIn(topicOrder, topic) # 0 THEN IndexIn(topicOrder, topic)
    ELSE Len(topicOrder) + IndexIn(OtherTopics, topic)

\* q.topic || 'General'
TopicOf(q) == IF q.topic = "" THEN "General" ELSE q.topic

RECURSIVE SortedTopics(_)
SortedTopics(topics) ==
    IF topics = {} THEN <<>>
    ELSE LET first == CHOOSE t \in topics : \A u \in topics : TopicRank(t) <= TopicRank(u)
         IN  <<first>> \o SortedTopics(topics \ {first})

\* questionsByTopic.get(topic), sorted by priority; the sort is stable
TopicQuestions(questions, topic) ==
    LET of(priority) ==
            SelectSeq(questions, LAMBDA q : TopicOf(q) = topic /\ q.priority = priority)
    IN  of("high") \o of("medium") \o of("low")

\* The sections auto_organize adds, in the order it adds them.
TopicSections(questions) ==
    LET sorted == SortedTopics({TopicOf(questions[i]) : i \in DOMAIN questions})
    IN  [k \in DOMAIN sorted |->
            [title |-> sorted[k], order |-> k - 1,
             questions |-> TopicQuestions(questions, sorted[k]),
             estimatedTime |-> Len(TopicQuestions(questions, sorted[k])) * 3]]

RECURSIVE AddSections(_, _, _, _, _)
\* for (const topic of sortedTopics) addOutlineSection(sessionId, sectionData)
AddSections(store, sessionId, sectionData, n, k) ==
    IF k > Len(sectionData) THEN store
    ELSE AddSections(addOutlineSection(store, sessionId, sectionData[k],
                                       uuidv4(n, "sections", k)),
                     sessionId, sectionData, n, k + 1)

OutlineQuestion(id, topic, priority) ==
    [id |-> id, topic |-> topic, priority |-> priority]

\* The question lists a generation request leaves on the session.
SessionQuestionLists ==
    { <<>>,
      <<OutlineQuestion(uuidv4(0, "questions", 1), "Shipment", "high")>>,
      <<OutlineQuestion(uuidv4(0, "questions", 1), "Closing", "low"),
        OutlineQuestion(uuidv4(0, "questions", 2), "Foundation", "medium"),
        OutlineQuestion(uuidv4(0, "questions", 3), "Closing", "high")>> }

\* The one deposition session the outline requests address.
OutlineSession == 1

InitOutline ==
    /\ now = 0
    /\ apiKey = TRUE
    /\ sessions = <<>>
    /\ \E questions \in SessionQuestionLists :
         depositionSessions =
            LET store == createDepositionSession(<<>>, OutlineSession, "Ann Lee", "Lee v. Ray")
            IN  IF questions = <<>> THEN store
                ELSE setQuestions(store, OutlineSession, questions)
    /\ docArrays = [f \in Families |-> IF f = "deposition" THEN <<<<>>>> ELSE <<>>]
    /\ req = [r \in Slots |-> Idle]
    /\ nreq = 0
    /\ llmCalls = 0
    /\ pin = NoValue
    /\ pout = NoValue

\* The ids a request can name: those of the sections, and one of no section.
SectionIds ==
    IF ~HasOutline(depositionSessions, OutlineSession) THEN {NoId}
    ELSE LET sections == OutlineOf(depositionSessions, OutlineSession).sections
         IN  {sections[i].id : i \in DOMAIN sections} \cup {NoId}

IdLists == UNION {[1..n -> SectionIds] : n \in 0..MaxIdList}

SectionCount ==
    IF HasOutline(depositionSessions, OutlineSession)
    THEN Len(OutlineOf(depositionSessions, OutlineSession).sections)
    ELSE 0

\* A request is served: body is what it sent, store what it leaves.
OutlineServed(body, store) ==
    /\ nreq < MaxOutlineOps
    /\ nreq' = nreq + 1
    /\ pin' = body
    /\ depositionSessions' = store
    /\ UNCHANGED <<now, apiKey, sessions, docArrays, req, llmCalls, pout>>

OutlineBody(action, arg) == [action |-> action, arg |-> arg]

OutlineTitles == {"", "Direct examination"}

\* case 'create'
OutlineCreate ==
    \E title \in OutlineTitles :
        OutlineServed(OutlineBody("create", title),
            IF title = "" THEN depositionSessions
            ELSE createOutline(depositionSessions, OutlineSession, title,
                               uuidv4(nreq + 1, "outline", 1)))

\* The section of an add_section body: its order is not read.
SectionInputs ==
    { [title |-> t, order |-> o] : t \in {"", "Damages"}, o \in {0, MaxSections} }

\* case 'add_section'
OutlineAddSection ==
    /\ SectionCount < MaxSections
    /\ \E section \in SectionInputs :
        OutlineServed(OutlineBody("add_section", section),
            IF ~HasOutline(depositionSessions, OutlineSession) \/ section.title = ""
            THEN depositionSessions
            ELSE addOutlineSection(depositionSessions, OutlineSession,
                    [title |-> section.title, order |-> SectionCount,
                     questions |-> <<>>, estimatedTime |-> Undefined],
                    uuidv4(nreq + 1, "sections", 1)))

\* The section of an update_section body: any fields of a section.
SectionUpdates == { [title |-> "Exhibits"], [order |-> 0] }

\* case 'update_section'
OutlineUpdateSection ==
    \E sectionId \in SectionIds, updates \in SectionUpdates :
        OutlineServed(OutlineBody("update_section", <<sectionId, updates>>),
            updateOutlineSection(depositionSessions, OutlineSession, sectionId, updates))

\* case 'reorder_sections'
OutlineReorder ==
    \E sectionIds \in IdLists :
        OutlineServed(OutlineBody("reorder_sections", sectionIds),
            reorderOutlineSections(depositionSessions, OutlineSession, sectionIds))

\* The question of an add_question body, with an id of its own or without.
QuestionInputs == { [id |-> NoId, topic |-> ""], [id |-> Undefined, topic |-> "Damages"] }

QuestionCountIn(sectionId) ==
    LET i == IF HasOutline(depositionSessions, OutlineSession)
             THEN FindIndex(OutlineOf(depositionSessions, OutlineSession).sections, sectionId)
             ELSE 0
    IN  IF i = 0 THEN 0
        ELSE Len(OutlineOf(depositionSessions, OutlineSession).sections[i].questions)

\* case 'add_question'
OutlineAddQuestion ==
    \E sectionId \in SectionIds, question \in QuestionInputs :
        /\ QuestionCountIn(sectionId) < MaxSectionQuestions
        /\ OutlineServed(OutlineBody("add_question", <<sectionId, question>>),
            addQuestionToSection(depositionSessions, OutlineSession, sectionId,
                OutlineQuestion(IF question.id = Undefined
                                THEN uuidv4(nreq + 1, "questions", 1) ELSE question.id,
                                IF question.topic = "" THEN "General" ELSE question.topic,
                                "medium")))

\* The question ids a request can name.
QuestionIds ==
    LET sections == IF HasOutline(depositionSessions, OutlineSession)
                    THEN OutlineOf(depositionSessions, OutlineSession).sections ELSE <<>>
    IN  {NoId} \cup UNION { {sections[i].questions[j].id : j \in DOMAIN sections[i].questions} :
                            i \in DOMAIN sections }

\* case 'remove_question'
OutlineRemoveQuestion ==
    \E sectionId \in SectionIds, questionId \in QuestionIds :
        OutlineServed(OutlineBody("remove_question", <<sectionId, questionId>>),
            removeQuestionFromSection(depositionSessions, OutlineSession, sectionId, questionId))

\* case 'auto_organize'
OutlineAutoOrganize ==
    LET questions == depositionSessions[OutlineSession].questions
        sectionData == TopicSections(questions)
        store == IF HasOutline(depositionSessions, OutlineSession) THEN depositionSessions
                 ELSE createOutline(depositionSessions, OutlineSession,
                                    "Deposition Outline - Ann Lee",
                                    uuidv4(nreq + 1, "outline", 1))
    IN  /\ SectionCount + Len(sectionData) <= MaxSections
        /\ OutlineServed(OutlineBody("auto_organize", NoValue),
            IF questions = <<>> THEN depositionSessions
            ELSE AddSections(store, OutlineSession, sectionData, nreq + 1, 1))

\* DELETE: updateDepositionSession(sessionId, { outline: null })
OutlineDELETE ==
    OutlineServed(OutlineBody("delete", NoValue),
        updateSession(depositionSessions, OutlineSession, [outline |-> JNull]))

NextOutline ==
    \/ OutlineCreate
    \/ OutlineAddSection
    \/ OutlineUpdateSection
    \/ OutlineReorder
    \/ OutlineAddQuestion
    \/ OutlineRemoveQuestion
    \/ OutlineAutoOrganize
    \/ OutlineDELETE

SpecOutline == InitOutline /\ [][NextOutline]_vars

\* The sections of the outline, none when there is no outline.
Sections(store) ==
    IF HasOutline(store, OutlineSession) THEN OutlineOf(store, OutlineSession).sections
    ELSE <<>>

\* C12: in every state the outline operations reach, the sections' order
\* values are 0, 1, 2, ... and each section's order is its list position.
C12_OrderIsPosition ==
    \A p \in DOMAIN Sections(depositionSessions) :
        Sections(depositionSessions)[p].order = p - 1

\* The ids of the sections in list order.
CurrentIds(sections) == [p \in DOMAIN sections |-> sections[p].id]

\* C13: a reorder_sections request listing the ids in their current order
\* leaves the section list, order values included, as it was.
C13_IdentityReorder ==
    [][(/\ pin'.action = "reorder_sections"
        /\ pin'.arg = CurrentIds(Sections(depositionSessions)))
       => Sections(depositionSessions') = Sections(depositionSessions)]_vars

(***************************************************************************)
(* POST /api/sessions/[sessionId]/practice, next to the two generation     *)
(* routes of the witness family, on a session that holds one document.     *)
(***************************************************************************)
\* As addPracticeExchange, without the addition to totalDuration.
addPracticeExchange_NoTotal(store, sessionId, exchange) ==
    IF sessionId \notin DOMAIN store THEN store
    ELSE [store EXCEPT ![sessionId].practiceHistory = Append(@, exchange)]

\* session.practiceHistory.push(exchange); session.totalDuration += exchange.duration
addPracticeExchange(store, sessionId, exchange) ==
    IF sessionId \notin DOMAIN store THEN store
    ELSE [store EXCEPT ![sessionId].practiceHistory = Append(@, exchange),
                       ![sessionId].totalDuration = @ + exchange.duration]

\* The body of a practice request: complete, or without the response text.
PracticeBodies ==
    { [questionId |-> "q1", question |-> "Where were you?", response |-> r, duration |-> d] :
        r \in {"", "At home."}, d \in {2, 5} }

PracticeOutcomes == {"throw", "notOk", "empty", "content"}

\* The handler's locals: the session object it read, of which the model
\* keeps the status, and the body.
PracticeLocals(status, body) == [t |-> "practice", status |-> status, body |-> body]

\* up to `await request.json()`
PracticePOST(r, sid) ==
    /\ Accepts(r)
    /\ nreq < MaxRequests
    /\ nreq' = nreq + 1
    /\ req' = [req EXCEPT ![r] =
          IF sid \notin DOMAIN sessions
          THEN Request("done", "practice", sid, nreq + 1, NoValue, "", "",
                       ErrorResponse(404, "Session not found"))
          ELSE Request("json", "practice", sid, nreq + 1,
                       PracticeLocals(sessions[sid].status, NoValue),
                       sessions[sid].caseName, sessions[sid].witnessName, NoValue)]
    /\ UNCHANGED <<now, apiKey, sessions, depositionSessions, docArrays, llmCalls, pin, pout>>

\* from the body to `await fetch(...)`
PracticeBody(r, body) ==
    /\ req[r].pc = "json"
    /\ req[r].route = "practice"
    /\ IF body.response = ""
       THEN /\ req' = [req EXCEPT ![r].pc = "done", ![r].file.body = body,
                         ![r].resp = ErrorResponse(400, "questionId, question, and response are required")]
            /\ UNCHANGED <<sessions, llmCalls>>
       ELSE IF ~apiKey
       THEN /\ req' = [req EXCEPT ![r].pc = "done", ![r].file.body = body,
                         ![r].resp = ErrorResponse(500, "Case.dev API key not configured.")]
            /\ UNCHANGED <<sessions, llmCalls>>
       ELSE /\ sessions' = IF req[r].file.status # "practicing"
                           THEN updateSession(sessions, req[r].sid, [status |-> "practicing"])
                           ELSE sessions
            /\ llmCalls' = llmCalls + 1
            /\ req' = [req EXCEPT ![r].pc = "fetch", ![r].file.body = body]
    /\ UNCHANGED <<now, apiKey, depositionSessions, docArrays, nreq, pin, pout>>

\* from the settled fetch to the response
PracticeResume(r, o) ==
    /\ req[r].pc = "fetch"
    /\ req[r].route = "practice"
    /\ LET sid      == req[r].sid
           body     == req[r].file.body
           exchange == [id |-> uuidv4(req[r].n, "x", 1), questionId |-> body.questionId,
                        duration |-> body.duration]
           saved    == addPracticeExchange(sessions, sid, exchange)
       IN  IF o = "content"
           THEN /\ sessions' = saved
                /\ req' = [req EXCEPT ![r].pc = "done", ![r].llm = o,
                             ![r].resp = [status |-> 200, exchange |-> exchange,
                                          session |-> SessionOrNull(saved, sid)]]
           ELSE /\ req' = [req EXCEPT ![r].pc = "done", ![r].llm = o,
                             ![r].resp = ErrorResponse(500, "Failed to analyze response")]
                /\ UNCHANGED sessions
    /\ UNCHANGED <<now, apiKey, depositionSessions, docArrays, nreq, llmCalls, pin, pout>>

InitPractice ==
    /\ now = 0
    /\ apiKey \in BOOLEAN
    /\ sessions = createSession(<<>>, 1, "Ann Lee", "Lee v. Ray")
    /\ depositionSessions = <<>>
    /\ docArrays = [f \in Families |->
                      IF f = "witness" THEN <<<<Doc("memo.txt", "exhibit", MemoText)>>>> ELSE <<>>]
    /\ req = [r \in Slots |-> Idle]
    /\ nreq = 0
    /\ llmCalls = 0
    /\ pin = NoValue
    /\ pout = NoValue

NextPractice ==
    \/ \E r \in Slots, sid \in RequestableIds : WitnessPOST(r, sid)
    \/ \E r \in Slots, o \in WitnessOutcomes : WitnessResume(r, o)
    \/ \E r \in Slots, sid \in RequestableIds : StreamPOST(r, sid)
    \/ \E r \in Slots, o \in StreamOutcomes : StreamResume(r, o)
    \/ \E r \in Slots, sid \in RequestableIds : PracticePOST(r, sid)
    \/ \E r \in Slots, body \in PracticeBodies : PracticeBody(r, body)
    \/ \E r \in Slots, o \in PracticeOutcomes : PracticeResume(r, o)

SpecPractice == InitPractice /\ [][NextPractice]_vars

\* The place of a status on the path setup, generating or analyzing, ready,
\* practicing or completed.
StatusRank(status) ==
    CASE status = "setup" -> 0
      [] status \in {"generating", "analyzing"} -> 1
      [] status = "ready" -> 2
      [] status \in {"practicing", "completed"} -> 3

\* C14: a session's status never moves backwards on the path setup,
\* generating or analyzing, ready, practicing or completed, and a session
\* becomes practicing only from ready.
C14_StatusForwardOnly ==
    [][\A sid \in DOMAIN sessions \cap DOMAIN sessions' :
          /\ StatusRank(sessions'[sid].status) >= StatusRank(sessions[sid].status)
          /\ (sessions'[sid].status = "practicing" /\ sessions[sid].status # "practicing")
                => sessions[sid].status = "ready"]_vars

\* Generation request r, past the precondition checks, ends in this step.
Ends(r) ==
    /\ req[r].pc = "fetch"
    /\ req[r].route \in GenerationRoutes
    /\ req'[r].pc = "done"

\* After the step no generation request for the session of r is in flight.
NoneInFlightAfter(r) ==
    \A q \in Slots :
        ~ /\ req'[q].pc = "fetch"
          /\ req'[q].route \in GenerationRoutes
          /\ FamilyOf(req'[q].route) = FamilyOf(req[r].route)
          /\ req'[q].sid = req[r].sid

\* C16: when a generation request that passed the precondition checks
\* ends, no other generation request for its session is in flight and the
\* session is in the store, the session's status is ready, whatever the
\* LLM call came back with.
C16_EndsReady ==
    [][\A r \in Slots :
          LET store == IF FamilyOf(req[r].route) = "witness"
                       THEN sessions' ELSE depositionSessions'
          IN  (Ends(r) /\ NoneInFlightAfter(r) /\ req[r].sid \in DOMAIN store)
                 => store[req[r].sid].status = "ready"]_vars

\* The text a question must be stored with, going by its question field.
PLACEHOLDER == "Question not available"

\* C19: every question of an accepted payload is stored with the text of
\* its question field when that field is a string, and with the
\* placeholder 'Question not available' when the field is missing or is
\* not a string.
C19_TextOrPlaceholder ==
    (Applied("validate") /\ HoldsQuestionObjects /\ Len(ValidatedQuestions) = 1)
    => \A i \in DOMAIN ValidatedQuestions[1] :
          LET given == Get(PayloadQuestions[i], "question")
          IN  ValidatedQuestions[1][i].question =
                 IF given.t = "str" THEN given ELSE JStr(PLACEHOLDER)

(***************************************************************************)
(* The two session stores over time: sessions are created and deleted      *)
(* while the clock advances.                                               *)
(***************************************************************************)
\* Bounds: sessions created in the two stores together, days the clock runs.
MaxCreated == 3
MaxDays == 1

\* The times, in hours, at which the clock is read: on the day and one
\* hour after.
ClockReadings == { d * SESSION_TTL + h : d \in 0..MaxDays, h \in {0, 1} }

\* sessions.delete(sessionId)
deleteSession(store, sessionId) ==
    [id \in DOMAIN store \ {sessionId} |-> store[id]]

InitStores ==
    /\ now = 0
    /\ apiKey = TRUE
    /\ sessions = <<>>
    /\ depositionSessions = <<>>
    /\ docArrays = [f \in Families |-> <<>>]
    /\ req = [r \in Slots |-> Idle]
    /\ nreq = 0
    /\ llmCalls = 0
    /\ pin = NoValue
    /\ pout = NoValue

\* The age in hours of session id of a store.
Age(store, id) == now - store[id].createdAt

\* An operation on the store of one family: pin names it, pout keeps the
\* age of every session that left the store in it.
StoreOperation(f, family, id, store) ==
    /\ pin' = [f |-> f, family |-> family, id |-> id]
    /\ pout' = [left |-> [i \in DOMAIN Store(family) \ DOMAIN store |-> Age(Store(family), i)]]
    /\ IF family = "witness"
       THEN sessions' = store /\ UNCHANGED depositionSessions
       ELSE depositionSessions' = store /\ UNCHANGED sessions
    /\ UNCHANGED <<now, apiKey, req, nreq, llmCalls>>

\* new Date() returns a later time
ClockAdvances ==
    /\ \E later \in ClockReadings : later > now /\ now' = later
    /\ UNCHANGED <<apiKey, sessions, depositionSessions, docArrays, req, nreq, llmCalls, pin, pout>>

\* createSession / createDepositionSession
StoreCreate(family) ==
    LET id == Len(docArrays[family]) + 1
    IN  /\ Len(docArrays["witness"]) + Len(docArrays["deposition"]) < MaxCreated
        /\ docArrays' = [docArrays EXCEPT ![family] = Append(@, <<>>)]
        /\ StoreOperation("create", family, id,
              IF family = "witness"
              THEN createSession(sessions, id, "Ann Lee", "Lee v. Ray")
              ELSE createDepositionSession(depositionSessions, id, "Ann Lee", "Lee v. Ray"))

\* deleteSession / deleteDepositionSession, of a session that is in the
\* store
StoreDelete(family, id) ==
    /\ id \in DOMAIN Store(family)
    /\ UNCHANGED docArrays
    /\ StoreOperation("delete", family, id, deleteSession(Store(family), id))

\* setQuestions / setDepositionQuestions, on any id
StoreWrite(family, id) ==
    /\ UNCHANGED docArrays
    /\ StoreOperation("setQuestions", family, id, setQuestions(Store(family), id, <<>>))

NextStores ==
    \/ ClockAdvances
    \/ \E family \in Families : StoreCreate(family)
    \/ \E family \in Families, id \in 1..MaxCreated : StoreDelete(family, id)
    \/ \E family \in Families, id \in 1..MaxCreated : StoreWrite(family, id)

SpecStores == InitStores /\ [][NextStores]_vars

\* C15: a session leaves a store only in a delete that names it or in a
\* create in that same store, and a create removes exactly the sessions
\* that are more than 24 hours old: none older remains after it, none of
\* 24 hours or less has gone.
C15_LeavesByDeleteOrSweep ==
    [][\A family \in Families :
          LET before == Store(family)
              after  == IF family = "witness" THEN sessions' ELSE depositionSessions'
              gone   == DOMAIN before \ DOMAIN after
              \* the step is a create in this store
              create == DOMAIN after \ DOMAIN before # {}
          IN  /\ gone # {} => \/ pin'.f = "delete" /\ pin'.family = family /\ gone = {pin'.id}
                              \/ create
              /\ create =>
                    /\ gone = {id \in DOMAIN before : Age(before, id) > SESSION_TTL}
                    /\ \A id \in DOMAIN after : Age(after, id) <= SESSION_TTL
                    /\ \A id \in DOMAIN before :
                          Age(before, id) <= SESSION_TTL => id \in DOMAIN after]_vars

\* A create has swept a session of 25 hours and kept one of exactly 24
\* hours.
C15_Witness ==
    /\ pin # NoValue /\ pin.f = "create" /\ pin.family = "witness"
    /\ \E old \in DOMAIN pout.left : pout.left[old] = SESSION_TTL + 1 /\ old \notin DOMAIN sessions
    /\ \E kept \in DOMAIN sessions : Age(sessions, kept) = SESSION_TTL
    /\ pin.id \in DOMAIN sessions /\ Age(sessions, pin.id) = 0

(***************************************************************************)
(* Reading the streamed completion.  The upstream text is a sequence of    *)
(* tokens: "da" and "ta: " (the two halves of the line prefix), "{" and    *)
(* "}" (the JSON around a delta), "nl", "[DONE]", and any other string,    *)
(* which is the content of the delta.  A read returns one or more tokens,  *)
(* so a chunk can end anywhere between two tokens of a line.               *)
(***************************************************************************)
\* Bound: delta events the upstream sends.
MaxEvents == 2

Fragments == {"", "A", "B"}

\* data: {"choices":[{"delta":{"content":fragment}}]} and the blank line
EventText(fragment) == <<"da", "ta: ", "{", fragment, "}", "nl", "nl">>

DoneText == <<"da", "ta: ", "[DONE]", "nl", "nl">>

RECURSIVE UpstreamText(_)
\* The event stream of the fragments, ended by the termination marker.
UpstreamText(fragments) ==
    IF fragments = <<>> THEN DoneText
    ELSE EventText(Head(fragments)) \o UpstreamText(Tail(fragments))

RECURSIVE Concatenated(_)
Concatenated(fragments) ==
    IF fragments = <<>> THEN "" ELSE Head(fragments) \o Concatenated(Tail(fragments))

RECURSIVE SplitLines(_, _)
\* chunk.split('\n'): line is the line being collected
SplitLines(chunk, line) ==
    IF chunk = <<>> THEN <<line>>
    ELSE IF Head(chunk) = "nl" THEN <<line>> \o SplitLines(Tail(chunk), <<>>)
    ELSE SplitLines(Tail(chunk), Append(line, Head(chunk)))

\* line.startsWith('data: ')
StartsWithData(line) == Len(line) >= 2 /\ line[1] = "da" /\ line[2] = "ta: "

\* JSON.parse(data).choices?.[0]?.delta?.content || '', '' when JSON.parse
\* raises
DeltaContent(data) ==
    IF Len(data) = 3 /\ data[1] = "{" /\ data[3] = "}" /\ data[2] \in Fragments
    THEN data[2] ELSE ""

RECURSIVE ReadLines(_, _, _)
\* for (const line of lines): the content collected, and whether the
\* generator of case-api.ts has returned on the termination marker
ReadLines(lines, content, reader) ==
    IF lines = <<>> THEN [content |-> content, stopped |-> FALSE]
    ELSE LET line == Head(lines)
             data == SubSeq(line, 3, Len(line))
         IN  IF ~StartsWithData(line) THEN ReadLines(Tail(lines), content, reader)
             ELSE IF data = <<"[DONE]">>
             THEN IF reader = "generator" THEN [content |-> content, stopped |-> TRUE]
                  ELSE ReadLines(Tail(lines), content, reader)
             ELSE ReadLines(Tail(lines), content \o DeltaContent(data), reader)

Readers == {"route", "generator"}

FragmentLists == UNION {[1..n -> Fragments] : n \in 0..MaxEvents}

InitStream ==
    /\ now = 0
    /\ apiKey = TRUE
    /\ sessions = <<>>
    /\ depositionSessions = <<>>
    /\ docArrays = [f \in Families |-> <<>>]
    /\ req = [r \in Slots |-> Idle]
    /\ nreq = 0
    /\ llmCalls = 0
    /\ \E reader \in Readers, fragments \in FragmentLists :
         pin = [f |-> "read", reader |-> reader, fragments |-> fragments,
                text |-> UpstreamText(fragments)]
    /\ pout = [read |-> 0, fullContent |-> "", done |-> FALSE]

\* const { done, value } = await reader.read() with done false, and the
\* loop body on the chunk
ReadChunk ==
    /\ ~pout.done
    /\ \E k \in 1..(Len(pin.text) - pout.read) :
         LET chunk == SubSeq(pin.text, pout.read + 1, pout.read + k)
             read  == ReadLines(SplitLines(chunk, <<>>), pout.fullContent, pin.reader)
         IN  pout' = [read        |-> pout.read + k,
                      fullContent |-> read.content,
                      done        |-> read.stopped]
    /\ UNCHANGED <<now, apiKey, sessions, depositionSessions, docArrays, req, nreq, llmCalls, pin>>

\* reader.read() with done true
ReadEnd ==
    /\ ~pout.done
    /\ pout.read = Len(pin.text)
    /\ pout' = [pout EXCEPT !.done = TRUE]
    /\ UNCHANGED <<now, apiKey, sessions, depositionSessions, docArrays, req, nreq, llmCalls, pin>>

NextStream == ReadChunk \/ ReadEnd

SpecStream == InitStream /\ [][NextStream]_vars

\* C20: however the upstream text is split into chunks, the text the
\* reader has collected when it is done is the concatenation, in order, of
\* the delta fragments sent before the termination marker.
C20_AllFragmentsInOrder ==
    pout.done => pout.fullContent = Concatenated(pin.fragments)

(***************************************************************************)
(* Overlapping generation requests on one session.                         *)
(***************************************************************************)
\* What request r delivers once the step is taken.
DeliveredAfter(r) ==
    IF req'[r].route \in NonStreaming
    THEN IF req'[r].resp.status = 200 THEN <<req'[r].resp.questions>> ELSE <<>>
    ELSE LET events == req'[r].resp.events
         IN  IF Len(events) > 0 /\ events[Len(events)].type = "done"
             THEN <<events[Len(events)].questions>> ELSE <<>>

\* The requests whose identifiers a question list carries.
MadeBy(questions) == {questions[i].id.r : i \in DOMAIN questions}

\* A generation request that delivers questions leaves them, and nothing
\* else, as the questions of its session.
PersistsOwn ==
    \A r \in Slots :
        (Responds(r) /\ req[r].route \in GenerationRoutes /\ Len(DeliveredAfter(r)) = 1)
        => LET store == IF FamilyOf(req[r].route) = "witness"
                        THEN sessions' ELSE depositionSessions'
           IN  req[r].sid \in DOMAIN store
               => store[req[r].sid].questions = DeliveredAfter(r)[1]

\* C21: the questions of a session are those of the generation request
\* that persisted last, never a mix of two requests, and the response of
\* every request carries the questions that request made.
C21_LastWriterWhole ==
    /\ [](/\ \A family \in Families : \A sid \in DOMAIN Store(family) :
                Cardinality(MadeBy(Store(family)[sid].questions)) <= 1
          /\ \A r \in Slots :
                (Answered(r) /\ req[r].route \in GenerationRoutes)
                => \A i \in DOMAIN Delivered(r) : MadeBy(Delivered(r)[i]) \subseteq {req[r].n})
    /\ [][PersistsOwn]_vars

\* Two witness requests on one session overlapped and both delivered; the
\* one that started first persisted last, and the session holds its
\* questions.
C21_Witness ==
    /\ \A r \in {1, 2} : /\ Answered(r) /\ req[r].route = "witness" /\ req[r].sid = 1
                         /\ Len(Delivered(r)) = 1
    /\ req[1].n < req[2].n
    /\ 1 \in DOMAIN sessions
    /\ sessions[1].questions = Delivered(1)[1]
    /\ sessions[1].questions # Delivered(2)[1]

(***************************************************************************)
(* The fixed questions of the deposition fallback.                         *)
(***************************************************************************)
\* How many questions of the synthesized deposition result have the topic.
OnTopic(topic) ==
    Cardinality({i \in DOMAIN pout.deposition.questions :
                    pout.deposition.questions[i].topic = JStr(topic)})

PriorTestimonyTypes == {"transcript", "prior_testimony"}

\* C22: a deposition fallback result holds the document-gap question; it
\* holds the cross-document-consistency question exactly when there are at
\* least 2 documents, and the prior-testimony question exactly when a
\* document has type transcript or prior_testimony.
C22_FixedQuestions ==
    Applied("fallback")
    => /\ OnTopic("Document Gaps") = 1
       /\ OnTopic("Document Consistency") = (IF Len(pin.documents) >= 2 THEN 1 ELSE 0)
       /\ OnTopic("Prior Testimony")
            = (IF \E i \in DOMAIN pin.documents : pin.documents[i].type \in PriorTestimonyTypes
               THEN 1 ELSE 0)

\* Two documents, the second a transcript and the first neither kind of
\* prior testimony: all three fixed questions are in the result.
C22_Witness ==
    /\ Applied("fallback")
    /\ Len(pin.documents) = 2
    /\ pin.documents[1].type = "exhibit" /\ pin.documents[2].type = "transcript"
    /\ OnTopic("Document Gaps") = 1 /\ OnTopic("Document Consistency") = 1
    /\ OnTopic("Prior Testimony") = 1

(***************************************************************************)
(* The entity lists of the deposition fallback.                            *)
(***************************************************************************)
\* The lists of the extraction: the field of the result, the class of
\* matches it is filled from, and how many matches of a document are read.
EntityLists ==
    { [field |-> "names",      class |-> "names",     cap |-> NAME_CAP],
      [field |-> "dates",      class |-> "dates",     cap |-> DATE_CAP],
      [field |-> "amounts",    class |-> "amounts",   cap |-> AMOUNT_CAP],
      [field |-> "locations",  class |-> "locations", cap |-> LOCATION_CAP],
      [field |-> "keyPhrases", class |-> "phrases",   cap |-> PHRASE_CAP] }

\* The values of one class in a document, one per match, in text order.
ValuesIn(doc, class) ==
    LET m == Matches(doc, class)
    IN  IF class = "locations" THEN [i \in DOMAIN m |-> m[i][2]] ELSE m

RECURSIVE DistinctOf(_)
\* The distinct values of a list, each at its first occurrence.
DistinctOf(list) ==
    IF Len(list) = 0 THEN <<>>
    ELSE LET front == DistinctOf(SubSeq(list, 1, Len(list) - 1))
             last  == list[Len(list)]
         IN  IF \E i \in DOMAIN front : front[i] = last THEN front ELSE Append(front, last)

NoDuplicates(list) == \A i, j \in DOMAIN list : list[i] = list[j] => i = j

Elements(list) == {list[i] : i \in DOMAIN list}

\* Where value x is first contributed: the document and the position in
\* what that document contributes.
FirstAt(x, contributions) ==
    LET d == CHOOSE d \in DOMAIN contributions :
                 /\ x \in Elements(contributions[d])
                 /\ \A e \in DOMAIN contributions :
                        x \in Elements(contributions[e]) => d <= e
        i == CHOOSE i \in DOMAIN contributions[d] :
                 /\ contributions[d][i] = x
                 /\ \A j \in DOMAIN contributions[d] : contributions[d][j] = x => i <= j
    IN  <<d, i>>

Before(a, b) == a[1] < b[1] \/ (a[1] = b[1] /\ a[2] < b[2])

\* The list holds every contributed value once, in the order in which the
\* values are first contributed.
CombinedFrom(list, contributions) ==
    /\ NoDuplicates(list)
    /\ Elements(list) = UNION {Elements(contributions[d]) : d \in DOMAIN contributions}
    /\ \A i, j \in DOMAIN list :
          i < j => Before(FirstAt(list[i], contributions), FirstAt(list[j], contributions))

\* C23 as stated: no list of the extraction holds a value twice, and each
\* document contributes its first cap distinct values of the class, in text
\* order.
C23_FirstDistinctValues ==
    Applied("extract")
    => \A e \in EntityLists :
          CombinedFrom(pout[e.field],
                       [d \in DOMAIN pin.documents |->
                           Slice(DistinctOf(ValuesIn(pin.documents[d], e.class)), e.cap)])

\* C23, amended: no list of the extraction holds a value twice, and each
\* document contributes the distinct values among its first cap matches of
\* the class, in text order.
C23_DistinctOfFirstMatches ==
    Applied("extract")
    => \A e \in EntityLists :
          CombinedFrom(pout[e.field],
                       [d \in DOMAIN pin.documents |->
                           DistinctOf(Slice(ValuesIn(pin.documents[d], e.class), e.cap))])

\* Two documents with the same text, which names six people and repeats
\* one of them among the first five matches: four names are extracted.
C23_Witness ==
    /\ Applied("extract")
    /\ Len(pin.documents) = 2
    /\ \A d \in DOMAIN pin.documents : pin.documents[d].content = RichText
    /\ Len(DistinctOf(ValuesIn(pin.documents[1], "names"))) > NAME_CAP
    /\ Len(pout.names) = NAME_CAP - 1
    /\ Len(pout.locations) = LOCATION_CAP - 1

(***************************************************************************)
(* Documents as generation requests read them.                             *)
(***************************************************************************)
\* The step in which the handler of slot r reads session.documents: on
\* arrival, for the prompt it sends, and when it responds, for the fallback.
ReadsDocuments(r) ==
    /\ (Arrives(r) /\ req'[r].pc = "fetch") \/ (Responds(r) /\ req[r].route \in GenerationRoutes)
    /\ req'[r].sid \in DOMAIN docArrays[FamilyOf(req'[r].route)]

Stored(doc) == doc.status = "ready" /\ doc.content # Undefined

\* C24: every document a generation request reads in its session's list
\* has status ready and its content stored, whatever upload is in flight.
C24_ReadsOnlyStoredDocuments ==
    [][\A r \in Slots :
          ReadsDocuments(r)
          => LET documents == Documents(FamilyOf(req'[r].route), req'[r].sid)
             IN  \A i \in DOMAIN documents : Stored(documents[i])]_vars

(***************************************************************************)
(* Practice submissions.                                                   *)
(***************************************************************************)
\* Request r is a practice submission that was answered with an error.
PracticeFailed(r) ==
    req[r].pc = "done" /\ req[r].route = "practice" /\ req[r].resp.status # 200

\* C25: a practice submission that is answered with an error response
\* leaves its session as it was before the request.  Stated for the first
\* request made on a session, which is then as it was created.
C25_ErrorLeavesSession ==
    \A r \in Slots :
        (PracticeFailed(r) /\ nreq = 1 /\ req[r].sid \in DOMAIN sessions)
        => sessions[req[r].sid] = createSession(<<>>, req[r].sid, req[r].name, req[r].caseName)[req[r].sid]

RECURSIVE SumOfDurations(_)
SumOfDurations(history) ==
    IF Len(history) = 0 THEN 0
    ELSE SumOfDurations(SubSeq(history, 1, Len(history) - 1)) + history[Len(history)].duration

\* Request r is a practice submission that is answered 200 in this step.
PracticeSucceeds(r) ==
    /\ req[r].pc = "fetch" /\ req[r].route = "practice"
    /\ req'[r].pc = "done" /\ req'[r].resp.status = 200

\* A step either leaves the practice history of a session alone, or is the
\* success of one practice submission for it and appends the exchange of
\* the response.
GrowsByOwnExchange ==
    \A sid \in DOMAIN sessions \cap DOMAIN sessions' :
        \/ /\ sessions'[sid].practiceHistory = sessions[sid].practiceHistory
           /\ ~ \E r \in Slots : PracticeSucceeds(r) /\ req[r].sid = sid
        \/ \E r \in Slots :
              /\ PracticeSucceeds(r) /\ req[r].sid = sid
              /\ sessions'[sid].practiceHistory
                   = Append(sessions[sid].practiceHistory, req'[r].resp.exchange)

ProgressEvent_ChunkLength(content, fullContent) ==
    [type |-> "progress", chunk |-> content, progress |-> Len(content)]

\* { chunk: content, progress: fullContent.length }
ProgressEvent(content, fullContent) ==
    [type |-> "progress", chunk |-> content, progress |-> Len(fullContent)]

\* controller.enqueue(...)
Enqueue(out, event) == [out EXCEPT !.events = Append(@, event)]

\* controller.close()
Close(out) == [out EXCEPT !.closed = TRUE, !.pc = "closed"]

RECURSIVE ReadDeltas(_, _)
\* The loop body on a chunk that holds the lines of these fragments.
ReadDeltas(fragments, out) ==
    IF fragments = <<>> THEN out
    ELSE LET content == Head(fragments)
             full    == out.fullContent \o content
         IN  ReadDeltas(Tail(fragments),
                        IF content # ""
                        THEN Enqueue([out EXCEPT !.fullContent = full],
                                     ProgressEvent(content, full))
                        ELSE out)

StreamSession == 1

FetchOutcomes == {"throw", "notOk", "noBody", "body"}

InitEvents ==
    /\ now = 0
    /\ apiKey = TRUE
    /\ sessions = updateSession(createSession(<<>>, StreamSession, "Ann Lee", "Lee v. Ray"),
                                StreamSession, [status |-> "generating"])
    /\ depositionSessions = <<>>
    /\ docArrays = [f \in Families |->
                      IF f = "witness" THEN <<<<Doc("memo.txt", "exhibit", MemoText)>>>> ELSE <<>>]
    /\ req = [r \in Slots |-> Idle]
    /\ nreq = 1
    /\ llmCalls = 1
    /\ \E fragments \in FragmentLists, parsed \in StreamParsed :
         pin = [f |-> "stream", fragments |-> fragments, parsed |-> parsed]
    /\ pout = [pc |-> "fetch", events |-> <<>>, closed |-> FALSE, fullContent |-> "", read |-> 0]

\* catch (error) of the start callback
StreamCatch(out) ==
    /\ sessions' = updateSession(sessions, StreamSession, [status |-> "setup"])
    /\ pout' = Close(Enqueue(out, ErrorEvent("Stream error")))

\* from the settled fetch to the first reader.read()
StreamFetch(k) ==
    /\ pout.pc = "fetch"
    /\ CASE k = "throw" -> StreamCatch(pout)
         [] k = "notOk" ->
              /\ sessions' = updateSession(sessions, StreamSession, [status |-> "setup"])
              /\ pout' = Close(Enqueue(pout, ErrorEvent("Failed to generate questions")))
         [] k = "noBody" ->
              /\ pout' = Close(Enqueue(pout, ErrorEvent("No response body")))
              /\ UNCHANGED sessions
         [] k = "body" ->
              /\ pout' = [pout EXCEPT !.pc = "reading"]
              /\ UNCHANGED sessions
    /\ UNCHANGED <<now, apiKey, depositionSessions, docArrays, req, nreq, llmCalls, pin>>

\* reader.read() gives a chunk with the lines of the next k fragments
StreamRead(k) ==
    /\ pout.pc = "reading"
    /\ pout.read + k <= Len(pin.fragments)
    /\ pout' = ReadDeltas(SubSeq(pin.fragments, pout.read + 1, pout.read + k),
                          [pout EXCEPT !.read = @ + k])
    /\ UNCHANGED <<now, apiKey, sessions, depositionSessions, docArrays, req, nreq, llmCalls, pin>>

\* reader.read() rejects
StreamReadRejects ==
    /\ pout.pc = "reading"
    /\ StreamCatch(pout)
    /\ UNCHANGED <<now, apiKey, depositionSessions, docArrays, req, nreq, llmCalls, pin>>

\* reader.read() gives done: the collected text is parsed and the stream
\* is ended
StreamEnd ==
    /\ pout.pc = "reading"
    /\ pout.read = Len(pin.fragments)
    /\ LET t == IF pin.parsed # SyntaxError THEN StreamTransform(pin.parsed, nreq) ELSE Thrown
       IN  IF t.ok
           THEN LET saved == setQuestions(sessions, StreamSession, t.v)
                IN  /\ sessions' = saved
                    /\ pout' = Close(Enqueue(pout, [type |-> "done", questions |-> t.v,
                                                    session |-> SessionOrNull(saved, StreamSession)]))
           ELSE /\ sessions' = updateSession(sessions, StreamSession, [status |-> "setup"])
                /\ pout' = Close(Enqueue(pout, ErrorEvent("Failed to parse response")))
    /\ UNCHANGED <<now, apiKey, depositionSessions, docArrays, req, nreq, llmCalls, pin>>

NextEvents ==
    \/ \E k \in FetchOutcomes : StreamFetch(k)
    \/ \E k \in 1..MaxEvents : StreamRead(k)
    \/ StreamReadRejects
    \/ StreamEnd

SpecEvents == InitEvents /\ [][NextEvents]_vars

\* Every await of the callback settles: the fetch and each read resolve or
\* reject.
SpecEventsLive == SpecEvents /\ WF_vars(NextEvents)

Terminal(event) == event.type \in {"done", "error"}

\* The events so far: a terminal event is the last one and the controller
\* is closed exactly when there is one; a done event carries questions;
\* the progress values increase.
EventsInOrder ==
    LET events == pout.events
    IN  /\ pout.closed <=> (Len(events) > 0 /\ Terminal(events[Len(events)]))
        /\ \A i \in DOMAIN events :
              /\ Terminal(events[i]) => i = Len(events)
              /\ events[i].type = "done" => Len(events[i].questions) > 0
              /\ events[i].type \in {"done", "error", "progress"}
        /\ \A i, j \in DOMAIN events :
              (i < j /\ events[i].type = "progress" /\ events[j].type = "progress")
              => events[i].progress < events[j].progress

\* C27: a streaming response that starts emits one terminal event, done
\* with the questions or error; it is the last event, the progress events
\* before it have increasing progress values, the stream is closed after
\* it and nothing is emitted afterwards; every started stream gets there.
C27_OneTerminalEvent ==
    /\ [](pin.f = "stream" => EventsInOrder)
    /\ [][pout.closed => (pout'.closed /\ pout'.events = pout.events)]_vars
    /\ <>(pin.f = "stream" /\ pout.closed)

\* Two progress events and then the done event, on a closed stream.
C27_Witness ==
    /\ pin.f = "stream" /\ pout.closed
    /\ Len(pout.events) = 3
    /\ pout.events[1].type = "progress" /\ pout.events[1].progress = 1
    /\ pout.events[2].type = "progress" /\ pout.events[2].progress = 2
    /\ pout.events[3].type = "done"

(***************************************************************************)
(* The outline after auto_organize.                                        *)
(***************************************************************************)
\* The sections of the outline that hold question q.
SectionsHolding(q) ==
    LET sections == Sections(depositionSessions)
    IN  {k \in DOMAIN sections :
            \E i \in DOMAIN sections[k].questions : sections[k].questions[i].id = q.id}

\* C28: after an auto_organize that found questions, each question of the
\* session is in exactly one section of the outline, the title of that
\* section is the topic of the question, and the outline has one section
\* per distinct topic, whatever the outline held before.
C28_OneSectionPerTopic ==
    (pin # NoValue /\ pin.action = "auto_organize"
       /\ depositionSessions[OutlineSession].questions # <<>>)
    => LET questions == depositionSessions[OutlineSession].questions
           sections  == Sections(depositionSessions)
       IN  /\ \A i \in DOMAIN questions :
                 /\ Cardinality(SectionsHolding(questions[i])) = 1
                 /\ \A k \in SectionsHolding(questions[i]) :
                       sections[k].title = TopicOf(questions[i])
           /\ Len(sections) = Cardinality({TopicOf(questions[i]) : i \in DOMAIN questions})

(***************************************************************************)
(* Store operations that do not find their target.                         *)
(***************************************************************************)
\* The store operation behind an outline request with this body does not
\* find its target: the session has no outline, or a section id the body
\* names is not the id of a section.
TargetMissing(body) ==
    LET sections == Sections(depositionSessions)
        known(id) == FindIndex(sections, id) # 0
    IN  CASE body.action \in {"update_section", "add_question", "remove_question"} ->
                ~HasOutline(depositionSessions, OutlineSession) \/ ~known(body.arg[1])
          [] body.action = "reorder_sections" ->
                \/ ~HasOutline(depositionSessions, OutlineSession)
                \/ \E i \in DOMAIN body.arg : ~known(body.arg[i])
          [] body.action = "add_section" -> ~HasOutline(depositionSessions, OutlineSession)
          [] OTHER -> FALSE

\* C29: a store operation that does not find its target leaves the whole
\* store as it was.
C29_MissingTargetLeavesStore ==
    [][TargetMissing(pin') => depositionSessions' = depositionSessions]_vars

(***************************************************************************)
(* handleFileUpload of the two client components.  pin holds which         *)
(* component runs it and how many files were chosen; pout holds the state  *)
(* of the component that the handler touches, the file it is at, and the   *)
(* outcomes of the requests so far.                                        *)
(***************************************************************************)
\* Bound: files chosen in one upload.
MaxFiles == 3

Components == {"witness", "deposition"}

\* What the request for one file comes to: a 2xx response with the
\* session, a non-2xx response other than 404, the 404 of a session that
\* is gone, or fetch or response.json() rejecting.
UploadOutcomes == {"ok", "error", "404", "throw"}

InitClient ==
    /\ now = 0
    /\ apiKey = TRUE
    /\ sessions = <<>>
    /\ depositionSessions = <<>>
    /\ docArrays = [f \in Families |-> <<>>]
    /\ req = [r \in Slots |-> Idle]
    /\ nreq = 0
    /\ llmCalls = 0
    /\ \E component \in Components, files \in 0..MaxFiles :
         pin = [f |-> "client", component |-> component, files |-> files]
    /\ pout = [pc |-> "idle", isUploadingDocument |-> FALSE, i |-> 0, outcomes |-> <<>>,
               session |-> "created", currentStep |-> "documents", error |-> JNull]

\* setError(message)
showError(state, message) == [state EXCEPT !.error = JStr(message)]

\* setSession(null); setCurrentStep('setup'); ...; setError(null)
resetToSetup(state) ==
    [state EXCEPT !.session = "null", !.currentStep = "setup", !.error = JNull]

\* The end of one pass of the loop: on to the next file, or past the loop
\* to setIsUploadingDocument(false).
NextFile(state) ==
    IF state.i < pin.files THEN [state EXCEPT !.i = @ + 1]
    ELSE [state EXCEPT !.isUploadingDocument = FALSE, !.pc = "returned"]

\* handleFileUpload(files) up to the first fetch
HandleFileUpload ==
    /\ pout.pc = "idle"
    /\ pout' = NextFile([pout EXCEPT !.pc = "fetch", !.isUploadingDocument = TRUE,
                                     !.error = JNull])
    /\ UNCHANGED <<now, apiKey, sessions, depositionSessions, docArrays, req, nreq, llmCalls, pin>>

\* from the settled request for file i to the next fetch or the return
UploadSettles(o) ==
    /\ pout.pc = "fetch"
    /\ LET seen == [pout EXCEPT !.outcomes = Append(@, o)]
       IN  pout' = CASE o = "ok" -> NextFile([seen EXCEPT !.session = "uploaded"])
                     [] o = "error" -> NextFile(showError(seen, "Failed to upload document"))
                     [] o = "404" ->
                          [resetToSetup(showError(seen, "Session expired. Please start a new session."))
                             EXCEPT !.pc = "returned"]
                     [] o = "throw" ->
                          NextFile(showError(seen, "Failed to upload document. Please try again."))
    /\ UNCHANGED <<now, apiKey, sessions, depositionSessions, docArrays, req, nreq, llmCalls, pin>>

NextClient == HandleFileUpload \/ \E o \in UploadOutcomes : UploadSettles(o)

SpecClient == InitClient /\ [][NextClient]_vars

\* C30: when an upload action that set the uploading indicator has
\* finished, the indicator is false, whatever the requests of its files
\* came to.
C30_IndicatorCleared ==
    (pin.f = "client" /\ pout.pc = "returned") => ~pout.isUploadingDocument

====
